---- MODULE Spec2Model ----
(***************************************************************************)
(* Coinstore order-book data source: symbol registry, subscription,        *)
(* frame routing, the diff / trade normalizers, the REST snapshot, and the *)
(* request signer.                                                         *)
(*                                                                         *)
(* Text values (exchange symbols, trading pairs) are sequences of tokens:  *)
(* "BTCUSDT" is <<"BTC", "USDT">> and "BTC-USDT" is <<"BTC", "-", "USDT">>. *)
(* A token is an atomic substring; "USDT" occurs in a text only as the     *)
(* token "USDT".  A JSON object is a function from its keys to its values, *)
(* so that a missing key is a key outside the DOMAIN.                      *)
(***************************************************************************)
EXTENDS Integers, Sequences, FiniteSets, TLC

VARIABLES
    _trading_pairs,            \* the instruments given to the constructor
    _trading_pair_symbol_map,  \* exchange symbol -> trading pair (bidict)
    _symbol_to_id_map,         \* exchange symbol -> channel id
    pc,                        \* position of the reader loop
    ws,                        \* the stream of the current connection
    ws_sent,                   \* every frame sent, with the stream it went to
    sub_log,                   \* one entry per call of _subscribe_channels
    wire,                      \* every frame received, in arrival order, with its channel
    _message_queue,            \* per channel: frames (by arrival number) waiting for a normalizer
    trade_output,              \* OutputQueue of Trade records
    diff_output,               \* OutputQueue of Diff records
    handled,                   \* frames a normalizer has finished with
    dropped,                   \* frames whose normalization raised
    clock,                     \* local time, in seconds
    rest_requests,             \* every REST request issued
    snapshot_log,              \* one entry per call of _order_book_snapshot
    secret_key,                \* per CoinstoreAuth object: its secret_key
    sign_log,                  \* one entry per call of add_auth_to_params
    api_key,                   \* per CoinstoreAuth object: its api_key
    request_log,               \* one entry per call of rest_authenticate
    loading,                   \* the metadata load in progress, if any: what is left of
                               \* its data_list, and its local mapping
    load_log                   \* one entry per logged call of
                               \* _initialize_trading_pair_symbols_from_exchange_info

vars == <<_trading_pairs, _trading_pair_symbol_map, _symbol_to_id_map,
          pc, ws, ws_sent, sub_log, wire, _message_queue, trade_output,
          diff_output, handled, dropped, clock, rest_requests, snapshot_log,
          secret_key, sign_log, api_key, request_log, loading, load_log>>

registry == <<_trading_pair_symbol_map, _symbol_to_id_map, loading, load_log>>
connection == <<pc, ws, sub_log>>
pipeline == <<wire, _message_queue, trade_output, diff_output, handled, dropped>>
snapshots == <<rest_requests, snapshot_log>>
signer == <<secret_key, sign_log, api_key, request_log>>

----------------------------------------------------------------------------
(* Bounds of the model *)

MaxConnects == 2
MaxFrames == 2
MaxClock == 2
MaxSnapshots == 2
MaxSigns == 2
MaxLoads == 2

----------------------------------------------------------------------------
(* Constants of the program *)

DIFF_EVENT_TYPE == "depth"
TRADE_EVENT_TYPE == "trade"
SNAPSHOT_QUEUE_KEY == "order_book_snapshot"

USDT == "USDT"
BTCUSDT == <<"BTC", USDT>>
ETHUSDT == <<"ETH", USDT>>
USDTUSDT == <<USDT, USDT>>
BTC_USDT == <<"BTC", "-", USDT>>
ETH_USDT == <<"ETH", "-", USDT>>

EmptyMap == <<>>

----------------------------------------------------------------------------
(* Text helpers, on token sequences *)

endswith(s, suffix) == Len(s) >= 1 /\ s[Len(s)] = suffix

RECURSIVE split(_, _)
split(s, sep) ==
    IF \A i \in 1..Len(s) : s[i] # sep
    THEN <<s>>
    ELSE LET i == CHOOSE k \in 1..Len(s) :
                      s[k] = sep /\ \A j \in 1..(k - 1) : s[j] # sep
         IN  <<SubSeq(s, 1, i - 1)>> \o split(SubSeq(s, i + 1, Len(s)), sep)

upper_token(t) ==
    CASE t = "btc" -> "BTC"
      [] t = "eth" -> "ETH"
      [] OTHER -> t

\* an upper() that keeps the letters as they are
upper_as_given(s) == s

upper(s) == [i \in 1..Len(s) |-> upper_token(s[i])]

combine_to_hb_trading_pair(base, quote) == base \o <<"-">> \o quote

----------------------------------------------------------------------------
(* Registry: the metadata load *)

with_item(m, k, v) == [x \in (DOMAIN m) \cup {k} |-> IF x = k THEN v ELSE m[x]]

\* a plain dict: a value may be held by any number of keys
dict_duplicates(m, k, v) == FALSE

\* bidict item assignment: a value already held by another key raises
bidict_duplicates(m, k, v) == \E k2 \in DOMAIN m : k2 # k /\ m[k2] = v

\* a load that files the channel id under the trading pair
RECURSIVE load_symbols_ids_by_pair(_, _, _)
load_symbols_ids_by_pair(data_list, mapping, ids) ==
    IF data_list = <<>>
    THEN [raised |-> "none", mapping |-> mapping, ids |-> ids]
    ELSE LET symbol_data == Head(data_list)
             exchange_symbol == symbol_data["symbol"]
         IN  IF ~endswith(exchange_symbol, USDT)
             THEN load_symbols_ids_by_pair(Tail(data_list), mapping, ids)
             ELSE LET parts == split(exchange_symbol, USDT)
                  IN  IF Len(parts) # 2
                      THEN [raised |-> "ValueError", mapping |-> mapping, ids |-> ids]
                      ELSE LET pair == combine_to_hb_trading_pair(upper(parts[1]), <<USDT>>)
                           IN  IF bidict_duplicates(mapping, exchange_symbol, pair)
                               THEN [raised |-> "ValueDuplicationError",
                                     mapping |-> mapping, ids |-> ids]
                               ELSE load_symbols_ids_by_pair(Tail(data_list),
                                        with_item(mapping, exchange_symbol, pair),
                                        with_item(ids, pair, symbol_data["id"]))

\* a load that files no channel id
RECURSIVE load_symbols_without_ids(_, _, _)
load_symbols_without_ids(data_list, mapping, ids) ==
    IF data_list = <<>>
    THEN [raised |-> "none", mapping |-> mapping, ids |-> ids]
    ELSE LET symbol_data == Head(data_list)
             exchange_symbol == symbol_data["symbol"]
         IN  IF ~endswith(exchange_symbol, USDT)
             THEN load_symbols_without_ids(Tail(data_list), mapping, ids)
             ELSE LET parts == split(exchange_symbol, USDT)
                  IN  IF Len(parts) # 2
                      THEN [raised |-> "ValueError", mapping |-> mapping, ids |-> ids]
                      ELSE LET pair == combine_to_hb_trading_pair(upper(parts[1]), <<USDT>>)
                           IN  IF bidict_duplicates(mapping, exchange_symbol, pair)
                               THEN [raised |-> "ValueDuplicationError",
                                     mapping |-> mapping, ids |-> ids]
                               ELSE load_symbols_without_ids(Tail(data_list),
                                        with_item(mapping, exchange_symbol, pair), ids)

RECURSIVE load_symbols(_, _, _)
load_symbols(data_list, mapping, ids) ==
    IF data_list = <<>>
    THEN [raised |-> "none", mapping |-> mapping, ids |-> ids]
    ELSE LET symbol_data == Head(data_list)
             exchange_symbol == symbol_data["symbol"]
         IN  IF ~endswith(exchange_symbol, USDT)
             THEN load_symbols(Tail(data_list), mapping, ids)
             ELSE LET parts == split(exchange_symbol, USDT)
                  IN  IF Len(parts) # 2
                      THEN [raised |-> "ValueError", mapping |-> mapping, ids |-> ids]
                      ELSE LET pair == combine_to_hb_trading_pair(upper(parts[1]), <<USDT>>)
                           IN  IF bidict_duplicates(mapping, exchange_symbol, pair)
                               THEN [raised |-> "ValueDuplicationError",
                                     mapping |-> mapping, ids |-> ids]
                               ELSE load_symbols(Tail(data_list),
                                                 with_item(mapping, exchange_symbol, pair),
                                                 with_item(ids, exchange_symbol, symbol_data["id"]))

\* a load that goes on to the data of a response whatever its code field is
trading_pair_symbols_from_exchange_info_ignoring_code(exchange_info, symbol_map, ids) ==
    LET r == load_symbols(exchange_info["data"], EmptyMap, ids)
    IN  [logged |-> exchange_info["code"] # 0,
         raised |-> r.raised,
         symbol_map |-> IF r.raised = "none" THEN r.mapping ELSE symbol_map,
         ids |-> r.ids]

\* One call on a Registry (symbol_map, ids): whether it logged an error, the
\* exception it raised, and the Registry it leaves.  The symbol map is
\* replaced after the loop; the ids are written inside the loop.
trading_pair_symbols_from_exchange_info(exchange_info, symbol_map, ids) ==
    IF exchange_info["code"] # 0
    THEN [logged |-> TRUE, raised |-> "none", symbol_map |-> symbol_map, ids |-> ids]
    ELSE LET r == load_symbols(exchange_info["data"], EmptyMap, ids)
         IN  [logged |-> FALSE,
              raised |-> r.raised,
              symbol_map |-> IF r.raised = "none" THEN r.mapping ELSE symbol_map,
              ids |-> r.ids]

_initialize_trading_pair_symbols_from_exchange_info(exchange_info) ==
    /\ LET r == trading_pair_symbols_from_exchange_info(exchange_info,
                     _trading_pair_symbol_map, _symbol_to_id_map)
       IN  /\ _symbol_to_id_map' = r.ids
           /\ _trading_pair_symbol_map' = r.symbol_map
    /\ UNCHANGED <<_trading_pairs, loading, load_log, signer, snapshots, connection, ws_sent,
                   pipeline, clock>>

\* The same call, with an entry in load_log: the response, and what the
\* call logged and raised.
LoadLogged(exchange_info) ==
    /\ Len(load_log) < MaxLoads
    /\ LET r == trading_pair_symbols_from_exchange_info(exchange_info,
                     _trading_pair_symbol_map, _symbol_to_id_map)
       IN  /\ _symbol_to_id_map' = r.ids
           /\ _trading_pair_symbol_map' = r.symbol_map
           /\ load_log' = Append(load_log, [exchange_info |-> exchange_info,
                                            logged |-> r.logged,
                                            raised |-> r.raised])
    /\ UNCHANGED <<_trading_pairs, loading, signer, snapshots, connection, ws_sent,
                   pipeline, clock>>

\* The same load, statement by statement, for the runs in which other code
\* reads the Registry while it is populated.  The check of the code field and
\* the new local mapping:
LoadBegin(exchange_info) ==
    /\ loading = <<>>
    /\ loading' = IF exchange_info["code"] # 0
                  THEN <<>>
                  ELSE <<[data_list |-> exchange_info["data"], mapping |-> EmptyMap]>>
    /\ UNCHANGED <<load_log, _trading_pairs, _trading_pair_symbol_map, _symbol_to_id_map, signer,
                   snapshots, connection, ws_sent, pipeline, clock>>

\* one turn of the loop over data_list; an exception ends the load
LoadSymbol ==
    /\ loading # <<>>
    /\ loading[1].data_list # <<>>
    /\ LET r == load_symbols(<<Head(loading[1].data_list)>>, loading[1].mapping,
                             _symbol_to_id_map)
       IN  /\ _symbol_to_id_map' = r.ids
           /\ loading' = IF r.raised # "none"
                         THEN <<>>
                         ELSE <<[data_list |-> Tail(loading[1].data_list),
                                 mapping |-> r.mapping]>>
    /\ UNCHANGED <<load_log, _trading_pairs, _trading_pair_symbol_map, signer, snapshots, connection,
                   ws_sent, pipeline, clock>>

\* self._set_trading_pair_symbol_map(mapping)
_set_trading_pair_symbol_map ==
    /\ loading # <<>>
    /\ loading[1].data_list = <<>>
    /\ _trading_pair_symbol_map' = loading[1].mapping
    /\ loading' = <<>>
    /\ UNCHANGED <<load_log, _trading_pairs, _symbol_to_id_map, signer, snapshots, connection,
                   ws_sent, pipeline, clock>>

\* The metadata responses the exchange gives in this model
ExchangeInfos ==
    { [code |-> 0, data |-> << [symbol |-> BTCUSDT, id |-> 4],
                               [symbol |-> ETHUSDT, id |-> 7] >>],
      [code |-> 0, data |-> << [symbol |-> BTCUSDT, id |-> 4] >>],
      [code |-> 1001, data |-> <<>>] }

\* metadata that lists one market under two spellings of its symbol
btcUSDT == <<"btc", USDT>>
ExchangeInfosAnyCase ==
    ExchangeInfos \cup
    { [code |-> 0, data |-> << [symbol |-> btcUSDT, id |-> 5],
                               [symbol |-> BTCUSDT, id |-> 4] >>] }

\* metadata that lists a market quoted in another asset, and metadata with a
\* symbol that holds the suffix twice
ETHUSDC == <<"ETH", "USDC">>
ETH_USDC == <<"ETH", "-", "USDC">>
ExchangeInfosAnyQuote ==
    ExchangeInfosAnyCase \cup
    { [code |-> 0, data |-> << [symbol |-> btcUSDT, id |-> 5],
                               [symbol |-> ETHUSDC, id |-> 8] >>],
      [code |-> 0, data |-> << [symbol |-> BTCUSDT, id |-> 4],
                               [symbol |-> USDTUSDT, id |-> 9] >>] }

----------------------------------------------------------------------------
(* Registry: lookups *)

exchange_symbol_associated_to_pair(trading_pair) ==
    IF \E s \in DOMAIN _trading_pair_symbol_map : _trading_pair_symbol_map[s] = trading_pair
    THEN [raised |-> "none",
          value |-> CHOOSE s \in DOMAIN _trading_pair_symbol_map :
                        _trading_pair_symbol_map[s] = trading_pair]
    ELSE [raised |-> "KeyError", value |-> <<>>]

trading_pair_associated_to_exchange_symbol(symbol) ==
    IF symbol \in DOMAIN _trading_pair_symbol_map
    THEN [raised |-> "none", value |-> _trading_pair_symbol_map[symbol]]
    ELSE [raised |-> "KeyError", value |-> <<>>]

----------------------------------------------------------------------------
(* Subscription manager *)

depth_channel(id) == ToString(id) \o "@" \o DIFF_EVENT_TYPE \o "@50"
trade_channel(id) == ToString(id) \o "@" \o TRADE_EVENT_TYPE

\* a channel list that skips an instrument that does not resolve
RECURSIVE subscribe_channel_list_skipping(_)
subscribe_channel_list_skipping(pairs) ==
    IF pairs = <<>>
    THEN [raised |-> "none", channels |-> <<>>]
    ELSE LET trading_symbol == exchange_symbol_associated_to_pair(Head(pairs))
             rest == subscribe_channel_list_skipping(Tail(pairs))
         IN  IF \/ trading_symbol.raised # "none"
                \/ trading_symbol.value \notin DOMAIN _symbol_to_id_map
             THEN rest
             ELSE [raised |-> "none",
                   channels |-> <<depth_channel(_symbol_to_id_map[trading_symbol.value]),
                                  trade_channel(_symbol_to_id_map[trading_symbol.value])>>
                                    \o rest.channels]

\* a loop that puts the channels of each instrument before those of the
\* instruments it took earlier
RECURSIVE subscribe_channel_list_newest_first(_)
subscribe_channel_list_newest_first(pairs) ==
    IF pairs = <<>>
    THEN [raised |-> "none", channels |-> <<>>]
    ELSE LET trading_symbol == exchange_symbol_associated_to_pair(Head(pairs))
         IN  IF trading_symbol.raised # "none"
             THEN [raised |-> trading_symbol.raised, channels |-> <<>>]
             ELSE IF trading_symbol.value \notin DOMAIN _symbol_to_id_map
             THEN [raised |-> "KeyError", channels |-> <<>>]
             ELSE LET id == _symbol_to_id_map[trading_symbol.value]
                      rest == subscribe_channel_list_newest_first(Tail(pairs))
                  IN  IF rest.raised # "none"
                      THEN rest
                      ELSE [raised |-> "none",
                            channels |-> rest.channels
                                             \o <<depth_channel(id), trade_channel(id)>>]

\* The loop over self._trading_pairs that builds the channel list; either
\* lookup of an instrument may raise KeyError, which ends the loop.
RECURSIVE subscribe_channel_list(_)
subscribe_channel_list(pairs) ==
    IF pairs = <<>>
    THEN [raised |-> "none", channels |-> <<>>]
    ELSE LET trading_symbol == exchange_symbol_associated_to_pair(Head(pairs))
         IN  IF trading_symbol.raised # "none"
             THEN [raised |-> trading_symbol.raised, channels |-> <<>>]
             ELSE IF trading_symbol.value \notin DOMAIN _symbol_to_id_map
             THEN [raised |-> "KeyError", channels |-> <<>>]
             ELSE LET id == _symbol_to_id_map[trading_symbol.value]
                      rest == subscribe_channel_list(Tail(pairs))
                  IN  IF rest.raised # "none"
                      THEN rest
                      ELSE [raised |-> "none",
                            channels |-> <<depth_channel(id), trade_channel(id)>>
                                             \o rest.channels]

IsSub(sent) == sent.payload.op = "SUB"
IsPong(sent) == sent.payload.op = "pong"

\* a subscribe that sends the control frame inside the loop, once per instrument
_subscribe_channels_per_instrument ==
    LET r == subscribe_channel_list(_trading_pairs)
    IN  IF r.raised = "none"
        THEN [raised |-> "none",
              sent |-> [k \in 1..Len(_trading_pairs) |->
                           [op |-> "SUB",
                            channel |-> <<r.channels[2 * k - 1], r.channels[2 * k]>>,
                            id |-> 1]]]
        ELSE [raised |-> r.raised, sent |-> <<>>]

\* a subscribe that sends only the channels no earlier control frame asked for
_subscribe_channels_incremental ==
    LET r == subscribe_channel_list(_trading_pairs)
        earlier == { ws_sent[i].payload : i \in { j \in 1..Len(ws_sent) : IsSub(ws_sent[j]) } }
        already == UNION { { p.channel[k] : k \in 1..Len(p.channel) } : p \in earlier }
    IN  IF r.raised = "none"
        THEN [raised |-> "none",
              sent |-> << [op |-> "SUB",
                           channel |-> SelectSeq(r.channels, LAMBDA c : c \notin already),
                           id |-> 1] >>]
        ELSE [raised |-> r.raised, sent |-> <<>>]

\* One call: the exception it raises to its caller ("none" when it returns)
\* and the payloads it sends on the stream, in order.
_subscribe_channels ==
    LET r == subscribe_channel_list(_trading_pairs)
    IN  IF r.raised = "none"
        THEN [raised |-> "none",
              sent |-> << [op |-> "SUB", channel |-> r.channels, id |-> 1] >>]
        ELSE [raised |-> r.raised, sent |-> <<>>]

on_stream(stream, payloads) ==
    [i \in 1..Len(payloads) |-> [ws |-> stream, payload |-> payloads[i]]]

----------------------------------------------------------------------------
(* The reader loop: connect, subscribe, read frames until the connection   *)
(* ends or an error is raised, then connect again.                         *)

_connected_websocket_assistant ==
    /\ pc = "connect"
    /\ ws < MaxConnects
    /\ ws' = ws + 1
    /\ pc' = "subscribe"
    /\ UNCHANGED <<_trading_pairs, signer, snapshots, registry, ws_sent, sub_log, pipeline, clock>>

\* a subscribe that clears the channel ids when it fails
Subscribe_forgetting ==
    /\ pc = "subscribe"
    /\ LET r == _subscribe_channels
       IN  /\ ws_sent' = ws_sent \o on_stream(ws, r.sent)
           /\ sub_log' = Append(sub_log,
                                [ws |-> ws,
                                 symbol_map |-> _trading_pair_symbol_map,
                                 ids |-> _symbol_to_id_map,
                                 raised |-> r.raised,
                                 sent |-> r.sent])
           /\ pc' = IF r.raised = "none" THEN "read" ELSE "connect"
           /\ _symbol_to_id_map' = IF r.raised = "none" THEN _symbol_to_id_map ELSE EmptyMap
    /\ UNCHANGED <<_trading_pairs, signer, snapshots, _trading_pair_symbol_map, loading,
                   load_log, ws,
                   pipeline, clock>>

Subscribe ==
    /\ pc = "subscribe"
    /\ LET r == _subscribe_channels
       IN  /\ ws_sent' = ws_sent \o on_stream(ws, r.sent)
           /\ sub_log' = Append(sub_log,
                                [ws |-> ws,
                                 symbol_map |-> _trading_pair_symbol_map,
                                 ids |-> _symbol_to_id_map,
                                 raised |-> r.raised,
                                 sent |-> r.sent])
           /\ pc' = IF r.raised = "none" THEN "read" ELSE "connect"
    /\ UNCHANGED <<_trading_pairs, signer, snapshots, registry, ws, pipeline, clock>>

\* What may go wrong in a call from outside the data source: the task is
\* cancelled while a lookup or the send is awaited, or the send fails.
Faults == {"none", "cancel_resolving", "cancel_sending", "send_error"}

\* a subscribe that logs an error and returns
_subscribe_channels_swallowing(fault) ==
    LET r == subscribe_channel_list(_trading_pairs)
    IN  IF fault = "none" /\ r.raised = "none"
        THEN [raised |-> "none", logged |-> FALSE,
              sent |-> << [op |-> "SUB", channel |-> r.channels, id |-> 1] >>]
        ELSE [raised |-> "none", logged |-> TRUE, sent |-> <<>>]

\* One call under a fault: the exception raised to the caller, whether the
\* error was logged, and the payloads sent.
_subscribe_channels_under(fault) ==
    IF fault = "cancel_resolving"
    THEN \* except asyncio.CancelledError: raise
         [raised |-> "CancelledError", logged |-> FALSE, sent |-> <<>>]
    ELSE LET r == subscribe_channel_list(_trading_pairs)
         IN  IF r.raised # "none"
             THEN \* except Exception: self.logger().error(...); raise
                  [raised |-> r.raised, logged |-> TRUE, sent |-> <<>>]
             ELSE IF fault = "cancel_sending"
             THEN [raised |-> "CancelledError", logged |-> FALSE, sent |-> <<>>]
             ELSE IF fault = "send_error"
             THEN [raised |-> "ConnectionError", logged |-> TRUE, sent |-> <<>>]
             ELSE [raised |-> "none", logged |-> FALSE,
                   sent |-> << [op |-> "SUB", channel |-> r.channels, id |-> 1] >>]

\* the call of the reader loop, under a fault; a cancellation ends the loop
SubscribeUnder(fault) ==
    /\ pc = "subscribe"
    /\ LET r == _subscribe_channels_under(fault)
       IN  /\ ws_sent' = ws_sent \o on_stream(ws, r.sent)
           /\ sub_log' = Append(sub_log,
                                [ws |-> ws,
                                 symbol_map |-> _trading_pair_symbol_map,
                                 ids |-> _symbol_to_id_map,
                                 raised |-> r.raised,
                                 sent |-> r.sent,
                                 fault |-> fault,
                                 logged |-> r.logged])
           /\ pc' = CASE r.raised = "none" -> "read"
                      [] r.raised = "CancelledError" -> "cancelled"
                      [] OTHER -> "connect"
    /\ UNCHANGED <<_trading_pairs, signer, snapshots, registry, ws, pipeline, clock>>

ConnectionClosed ==
    /\ pc = "read"
    /\ pc' = "connect"
    /\ UNCHANGED <<_trading_pairs, signer, snapshots, registry, ws, ws_sent, sub_log, pipeline, clock>>

----------------------------------------------------------------------------
(* JSON scalars.  t is the JSON type; v is the number carried ("str" is a  *)
(* string that spells the number v, "text" a string that spells none).     *)

int(n) == [t |-> "int", v |-> n]
float(n) == [t |-> "float", v |-> n]
str(n) == [t |-> "str", v |-> n]
text == [t |-> "text", v |-> 0]
null == [t |-> "null", v |-> 0]

has(obj, key) == key \in DOMAIN obj

\* JSON values that are no objects.  A JSON object of this model has no key
\* "t", which only the scalars above and the list below hold.
list == [t |-> "list", v |-> 0]
isinstance_dict(value) == "t" \notin DOMAIN value

\* decimal.Decimal(x): raises on a string that spells no number and on null
Decimal(x) ==
    CASE x.t \in {"int", "float", "str"} -> [raised |-> "none", value |-> [t |-> "Decimal", v |-> x.v]]
      [] x.t = "text" -> [raised |-> "InvalidOperation", value |-> null]
      [] OTHER -> [raised |-> "TypeError", value |-> null]

TradeType == [BUY |-> 1, SELL |-> 2]

OrderBookMessage(message_type, content, timestamp) ==
    [type |-> message_type, content |-> content, timestamp |-> timestamp]

----------------------------------------------------------------------------
(* Trade normalizer *)

\* parse_message(**msg): the Trade record of one payload, or the exception
\* raised by the first field that is missing, unresolvable or unparsable
parse_message(msg) ==
    LET fail(e) == [raised |-> e, message |-> <<>>]
    IN  IF ~has(msg, "tradeId") \/ ~has(msg, "symbol") THEN fail("KeyError")
        ELSE LET trading_pair == trading_pair_associated_to_exchange_symbol(msg["symbol"])
             IN  IF trading_pair.raised # "none" THEN fail(trading_pair.raised)
                 ELSE IF ~has(msg, "takerSide") \/ ~has(msg, "volume") THEN fail("KeyError")
                 ELSE IF Decimal(msg["volume"]).raised # "none" THEN fail(Decimal(msg["volume"]).raised)
                 ELSE IF ~has(msg, "price") THEN fail("KeyError")
                 ELSE IF Decimal(msg["price"]).raised # "none" THEN fail(Decimal(msg["price"]).raised)
                 ELSE IF ~has(msg, "time") THEN fail("KeyError")
                 ELSE IF msg["time"].t \notin {"int", "float"} THEN fail("TypeError")
                 ELSE [raised |-> "none",
                       message |-> OrderBookMessage("TRADE",
                           [trade_id |-> msg["tradeId"],
                            trading_pair |-> trading_pair.value,
                            trade_type |-> IF msg["takerSide"] = "BUY"
                                           THEN float(TradeType.BUY)
                                           ELSE float(TradeType.SELL),
                            amount |-> Decimal(msg["volume"]).value,
                            price |-> Decimal(msg["price"]).value],
                           [num |-> msg["time"].v, den |-> 1000])]

\* a loop that ends after the first payload of the batch
parse_batch_first_only(data, k) ==
    IF k > Len(data)
    THEN [raised |-> "none", put |-> <<>>]
    ELSE LET m == parse_message(data[k])
         IN  IF m.raised # "none"
             THEN [raised |-> m.raised, put |-> <<>>]
             ELSE [raised |-> "none", put |-> <<[entry |-> k, msg |-> m.message]>>]

\* a loop that prices every payload of the batch as the first one
RECURSIVE parse_batch_first_price(_, _)
parse_batch_first_price(data, k) ==
    IF k > Len(data)
    THEN [raised |-> "none", put |-> <<>>]
    ELSE LET m == parse_message(IF has(data[k], "price") /\ has(data[1], "price")
                                THEN [data[k] EXCEPT !["price"] = data[1]["price"]]
                                ELSE data[k])
         IN  IF m.raised # "none"
             THEN [raised |-> m.raised, put |-> <<>>]
             ELSE LET rest == parse_batch_first_price(data, k + 1)
                  IN  [raised |-> rest.raised,
                       put |-> <<[entry |-> k, msg |-> m.message]>> \o rest.put]

\* for trade_data in raw_message["data"]: each record is put on the queue as
\* soon as it is parsed; an exception ends the loop and keeps what was put.
\* Each record put is tagged with the position of its payload in the frame.
RECURSIVE parse_batch(_, _)
parse_batch(data, k) ==
    IF k > Len(data)
    THEN [raised |-> "none", put |-> <<>>]
    ELSE LET m == parse_message(data[k])
         IN  IF m.raised # "none"
             THEN [raised |-> m.raised, put |-> <<>>]
             ELSE LET rest == parse_batch(data, k + 1)
                  IN  [raised |-> rest.raised,
                       put |-> <<[entry |-> k, msg |-> m.message]>> \o rest.put]

\* a normalizer that puts the payloads of a frame on the queue last to first
_parse_trade_message_last_first(raw_message) ==
    IF ~has(raw_message, "data")
    THEN [raised |-> "KeyError", put |-> <<>>]
    ELSE LET batch == parse_batch(raw_message["data"], 1)
             m == parse_message(raw_message)
             incremental == IF has(raw_message, "tradeId") /\ raw_message["tradeId"] # null
                                /\ batch.raised = "none" /\ m.raised = "none"
                            THEN <<[entry |-> Len(raw_message["data"]) + 1, msg |-> m.message]>>
                            ELSE <<>>
             all == batch.put \o incremental
         IN  [raised |-> IF batch.raised # "none" THEN batch.raised
                         ELSE IF has(raw_message, "tradeId") /\ raw_message["tradeId"] # null
                         THEN m.raised ELSE "none",
              put |-> [i \in 1..Len(all) |-> all[Len(all) + 1 - i]]]

\* a normalizer that takes the payload at the top level only when the data
\* array is empty
_parse_trade_message_either_shape(raw_message) ==
    IF ~has(raw_message, "data")
    THEN [raised |-> "KeyError", put |-> <<>>]
    ELSE LET batch == parse_batch(raw_message["data"], 1)
         IN  IF raw_message["data"] # <<>> \/ batch.raised # "none"
             THEN batch
             ELSE IF has(raw_message, "tradeId") /\ raw_message["tradeId"] # null
             THEN LET m == parse_message(raw_message)
                  IN  IF m.raised # "none"
                      THEN [raised |-> m.raised, put |-> <<>>]
                      ELSE [raised |-> "none", put |-> <<[entry |-> 1, msg |-> m.message]>>]
             ELSE batch

_parse_trade_message(raw_message) ==
    IF ~has(raw_message, "data")
    THEN [raised |-> "KeyError", put |-> <<>>]
    ELSE LET batch == parse_batch(raw_message["data"], 1)
         IN  IF batch.raised # "none"
             THEN batch
             ELSE IF has(raw_message, "tradeId") /\ raw_message["tradeId"] # null
             THEN LET m == parse_message(raw_message)
                  IN  IF m.raised # "none"
                      THEN [raised |-> m.raised, put |-> batch.put]
                      ELSE [raised |-> "none",
                            put |-> batch.put \o
                                    <<[entry |-> Len(raw_message["data"]) + 1,
                                       msg |-> m.message]>>]
             ELSE batch

----------------------------------------------------------------------------
(* Diff normalizer *)

\* a normalizer that leaves the update marker out of the record
_parse_order_book_diff_message_unmarked(raw_message, timestamp) ==
    IF ~has(raw_message, "symbol")
    THEN [raised |-> "KeyError", put |-> <<>>]
    ELSE LET trading_pair == trading_pair_associated_to_exchange_symbol(raw_message["symbol"])
         IN  IF trading_pair.raised # "none"
             THEN [raised |-> trading_pair.raised, put |-> <<>>]
             ELSE IF ~has(raw_message, "b") \/ ~has(raw_message, "a")
             THEN [raised |-> "KeyError", put |-> <<>>]
             ELSE [raised |-> "none",
                   put |-> <<[entry |-> 1,
                              msg |-> OrderBookMessage("DIFF",
                                  [trading_pair |-> trading_pair.value,
                                   bids |-> raw_message["b"],
                                   asks |-> raw_message["a"]],
                                  timestamp)]>>]

\* a normalizer that keeps the venue's symbol when the Registry has none
_parse_order_book_diff_message_keeping_symbol(raw_message, timestamp) ==
    IF ~has(raw_message, "symbol") \/ ~has(raw_message, "b") \/ ~has(raw_message, "a")
    THEN [raised |-> "KeyError", put |-> <<>>]
    ELSE LET trading_pair == trading_pair_associated_to_exchange_symbol(raw_message["symbol"])
         IN  [raised |-> "none",
              put |-> <<[entry |-> 1,
                         msg |-> OrderBookMessage("DIFF",
                             [trading_pair |-> IF trading_pair.raised = "none"
                                               THEN trading_pair.value
                                               ELSE raw_message["symbol"],
                              update_id |-> timestamp,
                              bids |-> raw_message["b"],
                              asks |-> raw_message["a"]],
                             timestamp)]>>]

\* a normalizer that takes the update marker from the venue's frame
_parse_order_book_diff_message_venue_marker(raw_message, timestamp) ==
    IF ~has(raw_message, "symbol")
    THEN [raised |-> "KeyError", put |-> <<>>]
    ELSE LET trading_pair == trading_pair_associated_to_exchange_symbol(raw_message["symbol"])
         IN  IF trading_pair.raised # "none"
             THEN [raised |-> trading_pair.raised, put |-> <<>>]
             ELSE IF ~has(raw_message, "b") \/ ~has(raw_message, "a")
             THEN [raised |-> "KeyError", put |-> <<>>]
             ELSE [raised |-> "none",
                   put |-> <<[entry |-> 1,
                              msg |-> OrderBookMessage("DIFF",
                                  [trading_pair |-> trading_pair.value,
                                   update_id |-> IF has(raw_message, "time")
                                                 THEN raw_message["time"].v
                                                 ELSE 0,
                                   bids |-> raw_message["b"],
                                   asks |-> raw_message["a"]],
                                  timestamp)]>>]

_parse_order_book_diff_message(raw_message, timestamp) ==
    IF ~has(raw_message, "symbol")
    THEN [raised |-> "KeyError", put |-> <<>>]
    ELSE LET trading_pair == trading_pair_associated_to_exchange_symbol(raw_message["symbol"])
         IN  IF trading_pair.raised # "none"
             THEN [raised |-> trading_pair.raised, put |-> <<>>]
             ELSE IF ~has(raw_message, "b") \/ ~has(raw_message, "a")
             THEN [raised |-> "KeyError", put |-> <<>>]
             ELSE [raised |-> "none",
                   put |-> <<[entry |-> 1,
                              msg |-> OrderBookMessage("DIFF",
                                  [trading_pair |-> trading_pair.value,
                                   update_id |-> timestamp,
                                   bids |-> raw_message["b"],
                                   asks |-> raw_message["a"]],
                                  timestamp)]>>]

----------------------------------------------------------------------------
(* Router and keepalive responder *)

_trade_messages_queue_key == TRADE_EVENT_TYPE
_diff_messages_queue_key == DIFF_EVENT_TYPE

\* event_message.get(...): a value that is no dict has no such method
\* (a list, a string, a number); the error leaves the Router
_channel_originating_message_raised(event_message) ==
    IF isinstance_dict(event_message) THEN "none" ELSE "AttributeError"

_channel_originating_message(event_message) ==
    LET channel0 == ""
        channel1 == IF \/ (has(event_message, "T") /\ event_message["T"] = TRADE_EVENT_TYPE)
                       \/ (has(event_message, "tradeId") /\ event_message["tradeId"] # null)
                    THEN _trade_messages_queue_key
                    ELSE channel0
        channel2 == IF has(event_message, "T") /\ event_message["T"] = DIFF_EVENT_TYPE
                    THEN _diff_messages_queue_key
                    ELSE channel1
    IN  channel2

\* a responder that sends the local time in seconds
_process_message_for_unknown_channel_seconds(event_message, now) ==
    << [op |-> "pong", epochMillis |-> now] >>

\* a responder that skips the pong while records wait on an OutputQueue
_process_message_for_unknown_channel_when_idle(event_message, now) ==
    IF trade_output # <<>> \/ diff_output # <<>>
    THEN <<>>
    ELSE << [op |-> "pong", epochMillis |-> now * 1000] >>

\* the payloads sent for a frame of no known channel, at local time now
_process_message_for_unknown_channel(event_message, now) ==
    << [op |-> "pong", epochMillis |-> now * 1000] >>

_get_messages_queue_keys == {SNAPSHOT_QUEUE_KEY, _diff_messages_queue_key, _trade_messages_queue_key}

----------------------------------------------------------------------------
(* The frames the venue sends in this model *)

TradePayload(id, symbol, side) ==
    [tradeId |-> int(id), symbol |-> symbol, takerSide |-> side,
     volume |-> str(id), price |-> int(45000 + id), time |-> int(5000 + id)]

Buy1 == TradePayload(1, BTCUSDT, "BUY")
Sell2 == TradePayload(2, BTCUSDT, "SELL")
Eth3 == TradePayload(3, ETHUSDT, "BUY")
LowerCase5 == TradePayload(5, BTCUSDT, "buy")
NoVolume4 == [tradeId |-> int(4), symbol |-> BTCUSDT, takerSide |-> "BUY",
              price |-> int(45004), time |-> int(5004)]

\* price levels as the venue writes them: strings, or JSON numbers
Bids == << <<str(45000), str(1)>> >>
Asks == << <<int(45500), float(1)>> >>

TradeFrames ==
    { [T |-> TRADE_EVENT_TYPE, data |-> <<Buy1>>],
      [T |-> TRADE_EVENT_TYPE, data |-> <<Buy1, Sell2>>],
      [T |-> TRADE_EVENT_TYPE, data |-> <<Buy1, Eth3>>],
      [T |-> TRADE_EVENT_TYPE, data |-> <<Buy1, NoVolume4>>],
      [T |-> TRADE_EVENT_TYPE, data |-> <<LowerCase5>>],
      [T |-> TRADE_EVENT_TYPE] @@ Buy1,
      Sell2,
      [T |-> TRADE_EVENT_TYPE, data |-> <<Buy1, Eth3>>] @@ Sell2 }

DiffFrames ==
    { [T |-> DIFF_EVENT_TYPE, symbol |-> BTCUSDT, b |-> Bids, a |-> Asks],
      [T |-> DIFF_EVENT_TYPE, symbol |-> ETHUSDT, b |-> Bids, a |-> Asks],
      [T |-> DIFF_EVENT_TYPE, symbol |-> BTCUSDT, b |-> Bids],
      [T |-> DIFF_EVENT_TYPE, b |-> Bids, a |-> Asks] @@ Buy1 }

OtherFrames ==
    { [T |-> "echo"],
      [tradeId |-> null],
      [data |-> <<Buy1>>] }

\* frames that are valid JSON and no object
NonObjectFrames == { list, text }

Frames == TradeFrames \cup DiffFrames \cup OtherFrames

----------------------------------------------------------------------------
(* Reader: one received frame is classified and dispatched *)

Times == clock..MaxClock

Receive(event_message) ==
    /\ pc = "read"
    /\ Len(wire) < MaxFrames
    /\ IF _channel_originating_message_raised(event_message) # "none"
       THEN \* the error ends _process_websocket_messages: the loop of
            \* listen_for_subscriptions logs it and connects again
            /\ wire' = Append(wire, [ws |-> ws, data |-> event_message, channel |-> "",
                                     raised |-> _channel_originating_message_raised(event_message)])
            /\ pc' = "connect"
            /\ UNCHANGED <<ws, sub_log, ws_sent, clock, _message_queue>>
       ELSE /\ wire' = Append(wire, [ws |-> ws, data |-> event_message,
                                     channel |-> _channel_originating_message(event_message),
                                     raised |-> "none"])
            /\ LET channel == _channel_originating_message(event_message)
               IN  IF channel \in _get_messages_queue_keys
                   THEN /\ _message_queue' =
                               [_message_queue EXCEPT ![channel] = Append(@, Len(wire) + 1)]
                        /\ UNCHANGED <<ws_sent, clock>>
                   ELSE /\ \E now \in Times :
                               /\ clock' = now
                               /\ ws_sent' = ws_sent \o
                                      on_stream(ws, _process_message_for_unknown_channel(event_message, now))
                        /\ UNCHANGED _message_queue
            /\ UNCHANGED connection
    /\ UNCHANGED <<_trading_pairs, signer, snapshots, registry, trade_output, diff_output, handled, dropped>>

\* the records a normalizer put, as they stand on the OutputQueue
from_frame(n, records) ==
    [i \in 1..Len(records) |->
        [frame |-> n, entry |-> records[i].entry, msg |-> records[i].msg]]

\* a listener that lets the normalizer's exception end the connection
ListenForTrades_raising ==
    /\ _message_queue[_trade_messages_queue_key] # <<>>
    /\ LET n == Head(_message_queue[_trade_messages_queue_key])
           r == _parse_trade_message(wire[n].data)
       IN  /\ trade_output' = trade_output \o from_frame(n, r.put)
           /\ handled' = handled \cup {n}
           /\ dropped' = IF r.raised # "none" THEN dropped \cup {n} ELSE dropped
           /\ pc' = IF r.raised # "none" THEN "connect" ELSE pc
    /\ _message_queue' = [_message_queue EXCEPT ![_trade_messages_queue_key] = Tail(@)]
    /\ UNCHANGED <<_trading_pairs, signer, snapshots, registry, ws, sub_log, ws_sent, wire, diff_output, clock>>

\* listen_for_trades: the next frame of the trade channel is normalized; an
\* exception of the normalizer is logged and the loop goes on
ListenForTrades ==
    /\ _message_queue[_trade_messages_queue_key] # <<>>
    /\ LET n == Head(_message_queue[_trade_messages_queue_key])
           r == _parse_trade_message(wire[n].data)
       IN  /\ trade_output' = trade_output \o from_frame(n, r.put)
           /\ handled' = handled \cup {n}
           /\ dropped' = IF r.raised # "none" THEN dropped \cup {n} ELSE dropped
    /\ _message_queue' = [_message_queue EXCEPT ![_trade_messages_queue_key] = Tail(@)]
    /\ UNCHANGED <<_trading_pairs, signer, snapshots, registry, connection, ws_sent, wire, diff_output, clock>>

\* listen_for_order_book_diffs
ListenForOrderBookDiffs ==
    /\ _message_queue[_diff_messages_queue_key] # <<>>
    /\ \E now \in Times :
          LET n == Head(_message_queue[_diff_messages_queue_key])
              r == _parse_order_book_diff_message(wire[n].data, now)
          IN  /\ clock' = now
              /\ diff_output' = diff_output \o from_frame(n, r.put)
              /\ handled' = handled \cup {n}
              /\ dropped' = IF r.raised # "none" THEN dropped \cup {n} ELSE dropped
    /\ _message_queue' = [_message_queue EXCEPT ![_diff_messages_queue_key] = Tail(@)]
    /\ UNCHANGED <<_trading_pairs, signer, snapshots, registry, connection, ws_sent, wire, trade_output>>

----------------------------------------------------------------------------
(* REST snapshot *)

\* A format string is a sequence of parts: literal text, or a replacement
\* field with its name ("" for the auto-numbered field {}).
literal(s) == [lit |-> s]
field(name) == [field |-> name]

REST_URL == << literal(<<"https://api.coinstore.com/api">>) >>
ORDERBOOK_DEPTH_PATH == << literal(<<"/v1/market/depth/">>), field("symbol") >>

public_rest_url(path_url) == REST_URL \o path_url

\* str.format(*args, **kwargs): a named field is looked up in kwargs only
\* (KeyError when missing), an auto-numbered field takes the next of args
\* (IndexError when there is none)
RECURSIVE format_parts(_, _, _, _)
format_parts(parts, args, kwargs, next) ==
    IF parts = <<>>
    THEN [raised |-> "none", value |-> <<>>]
    ELSE LET part == Head(parts)
         IN  IF has(part, "lit")
             THEN LET rest == format_parts(Tail(parts), args, kwargs, next)
                  IN  [raised |-> rest.raised, value |-> part.lit \o rest.value]
             ELSE IF part.field = ""
             THEN IF next > Len(args)
                  THEN [raised |-> "IndexError", value |-> <<>>]
                  ELSE LET rest == format_parts(Tail(parts), args, kwargs, next + 1)
                       IN  [raised |-> rest.raised, value |-> args[next] \o rest.value]
             ELSE IF part.field \notin DOMAIN kwargs
                  THEN [raised |-> "KeyError", value |-> <<>>]
                  ELSE LET rest == format_parts(Tail(parts), args, kwargs, next)
                       IN  [raised |-> rest.raised, value |-> kwargs[part.field] \o rest.value]

format(template, args, kwargs) == format_parts(template, args, kwargs, 1)

\* What the venue does with a depth request: a transport failure, or a body
OneBid == << <<int(100), float(1)>> >>
OneAsk == << <<int(101), float(1)>> >>
VenueAnswers ==
    { [raised |-> "IOError"],
      [raised |-> "none", data |-> [data |-> [b |-> OneBid, a |-> OneAsk]]],
      [raised |-> "none", data |-> [code |-> int(1001)]],
      [raised |-> "none", data |-> [data |-> [b |-> OneBid]]],
      [raised |-> "none", data |-> [data |-> [a |-> OneAsk]]] }

\* the result of a call: the exception and the step that raised it, the
\* requests issued, and what was returned (a sequence of at most one value)
outcome(raised, at, requests, returned) ==
    [raised |-> raised, at |-> at, requests |-> requests, returned |-> returned]

_request_order_book_snapshot(trading_pair, venue) ==
    LET symbol == exchange_symbol_associated_to_pair(trading_pair)
    IN  IF symbol.raised # "none"
        THEN outcome(symbol.raised, "resolve", <<>>, <<>>)
        ELSE LET url == format(public_rest_url(ORDERBOOK_DEPTH_PATH), <<symbol.value>>, EmptyMap)
             IN  IF url.raised # "none"
                 THEN outcome(url.raised, "url", <<>>, <<>>)
                 ELSE LET request == [url |-> url.value, params |-> symbol.value, method |-> "GET"]
                      IN  IF venue.raised # "none"
                          THEN outcome(venue.raised, "request", <<request>>, <<>>)
                          ELSE outcome("none", "", <<request>>, <<venue.data>>)

_order_book_snapshot(trading_pair, venue, now) ==
    LET response == _request_order_book_snapshot(trading_pair, venue)
    IN  IF response.raised # "none"
        THEN response
        ELSE LET snapshot_response == response.returned[1]
                 snapshot_timestamp == now
             IN  IF ~has(snapshot_response, "data")
                 THEN outcome("KeyError", "normalize", response.requests, <<>>)
                 ELSE IF ~isinstance_dict(snapshot_response["data"])
                 THEN outcome("TypeError", "normalize", response.requests, <<>>)
                 ELSE IF ~has(snapshot_response["data"], "b") \/ ~has(snapshot_response["data"], "a")
                 THEN outcome("KeyError", "normalize", response.requests, <<>>)
                 ELSE outcome("none", "", response.requests,
                              << OrderBookMessage("SNAPSHOT",
                                     [trading_pair |-> trading_pair,
                                      update_id |-> snapshot_timestamp,
                                      bids |-> snapshot_response["data"]["b"],
                                      asks |-> snapshot_response["data"]["a"]],
                                     snapshot_timestamp) >>)

Instruments == {BTC_USDT, ETH_USDT}

\* one call of _order_book_snapshot by the tracker; the local time is read
\* once the response is there
FetchSnapshot(trading_pair) ==
    /\ Len(snapshot_log) < MaxSnapshots
    /\ \E venue \in VenueAnswers, now \in Times :
          LET r == _order_book_snapshot(trading_pair, venue, now)
              response == _request_order_book_snapshot(trading_pair, venue)
          IN  /\ rest_requests' = rest_requests \o r.requests
              /\ clock' = IF response.raised = "none" THEN now ELSE clock
              /\ snapshot_log' = Append(snapshot_log,
                     [trading_pair |-> trading_pair,
                      venue |-> venue,
                      symbol_map |-> _trading_pair_symbol_map,
                      sent_before |-> Len(rest_requests),
                      response |-> response.returned,
                      raised |-> r.raised,
                      at |-> r.at,
                      requests |-> r.requests,
                      result |-> r.returned])
    /\ UNCHANGED <<_trading_pairs, signer, registry, connection, ws_sent, pipeline>>

----------------------------------------------------------------------------
(* Request signer (coinstore_auth.py) *)

\* An OrderedDict is a sequence of <<key, value>> items with distinct keys.
\* OrderedDict(params or {}) is a new mapping with the items of params; no
\* params (None) and the empty mapping are both <<>>.
OrderedDict(params) == [i \in 1..Len(params) |-> params[i]]

keys(d) == { d[i][1] : i \in 1..Len(d) }

\* d[key] = value: a key that is there keeps its place, a new key goes last
setitem(d, key, value) ==
    IF key \in keys(d)
    THEN [i \in 1..Len(d) |-> IF d[i][1] = key THEN <<key, value>> ELSE d[i]]
    ELSE Append(d, <<key, value>>)

\* str(value) as urlencode writes it: a number and the string that spells it
\* are written alike
quote_plus(value) ==
    CASE value.t \in {"int", "str"} -> ToString(value.v)
      [] value.t = "text" -> "text"
      [] OTHER -> "None"

\* urllib.parse.urlencode: key=value items joined by &, in the order of the mapping
RECURSIVE urlencode(_)
urlencode(d) ==
    IF d = <<>> THEN <<>>
    ELSE <<d[1][1], "=", quote_plus(d[1][2])>>
             \o (IF Len(d) > 1 THEN <<"&">> ELSE <<>>)
             \o urlencode(Tail(d))

\* hmac.new(key, msg, hashlib.sha256).hexdigest(), as the term it stands for
hmac_sha256_hexdigest(key, msg) == [hmac |-> "sha256", key |-> key, msg |-> msg]

\* a signer that mixes a count of its earlier calls into what it signs
_generate_signature_counting(auth, params) ==
    hmac_sha256_hexdigest(secret_key[auth],
        urlencode(params) \o <<"&", "nonce", "=", ToString(Len(sign_log))>>)

_generate_signature(auth, params) ==
    LET encoded_params_str == urlencode(params)
    IN  hmac_sha256_hexdigest(secret_key[auth], encoded_params_str)

\* a signer that writes the timestamp and the signature into the mapping of
\* its caller and returns that mapping
add_auth_to_params_in_place(auth, params, now) ==
    LET timestamp == int(now * 1000)
        request_params == setitem(params, "timestamp", timestamp)
        signature == _generate_signature(auth, request_params)
    IN  [timestamp |-> timestamp,
         signed |-> request_params,
         signature |-> signature,
         request_params |-> setitem(request_params, "signature", signature),
         params |-> setitem(request_params, "signature", signature),
         same_mapping |-> TRUE]

\* add_auth_to_params(params) at provider time now (in seconds).  The items
\* are set on request_params, the mapping that OrderedDict(...) built; params
\* is read only, and it is what the caller's mapping holds at the return.
add_auth_to_params(auth, params, now) ==
    LET timestamp == int(now * 1000)
        request_params == setitem(OrderedDict(params), "timestamp", timestamp)
        signature == _generate_signature(auth, request_params)
    IN  [timestamp |-> timestamp,
         signed |-> request_params,
         signature |-> signature,
         request_params |-> setitem(request_params, "signature", signature),
         params |-> params,
         same_mapping |-> FALSE]

Signers == {"auth1", "auth2"}
Secrets == {"secret1", "secret2"}
ApiKeys == {"testApiKey"}

\* CoinstoreAuth(api_key, secret_key, time_provider)
CoinstoreAuth(auth, key, secret) ==
    /\ auth \notin DOMAIN secret_key
    /\ api_key' = with_item(api_key, auth, key)
    /\ secret_key' = with_item(secret_key, auth, secret)
    /\ UNCHANGED <<_trading_pairs, sign_log, request_log, snapshots, registry, connection,
                   ws_sent, pipeline, clock>>

\* the parameter mappings of the callers in this model
ParamMappings ==
    { <<>>,
      << <<"symbol", text>> >>,
      << <<"symbol", text>>, <<"limit", int(5)>> >>,
      << <<"limit", str(5)>>, <<"symbol", text>> >>,
      << <<"timestamp", int(7)>>, <<"symbol", text>> >> }

AddAuthToParams(auth, params) ==
    /\ auth \in DOMAIN secret_key
    /\ Len(sign_log) < MaxSigns
    /\ \E now \in Times :
          LET r == add_auth_to_params(auth, params, now)
          IN  /\ clock' = now
              /\ sign_log' = Append(sign_log,
                     [auth |-> auth,
                      secret |-> secret_key[auth],
                      params |-> params,
                      params_after |-> r.params,
                      same_mapping |-> r.same_mapping,
                      now |-> now,
                      timestamp |-> r.timestamp,
                      signed |-> r.signed,
                      signature |-> r.signature,
                      request_params |-> r.request_params])
    /\ UNCHANGED <<_trading_pairs, secret_key, api_key, request_log, snapshots, registry,
                   connection, ws_sent, pipeline>>

\* An optional value is a sequence of at most one value: None is <<>>.
None == <<>>
Some(value) == <<value>>
or_empty(optional) == IF optional = None THEN <<>> ELSE optional[1]

\* The body of a request: the JSON text of a mapping (json.dumps), or the
\* mapping itself
json_dumps(d) == [kind |-> "json", items |-> d]
mapping(d) == [kind |-> "dict", items |-> d]

\* json.loads(s): TypeError for a value that is no text (None, a mapping)
json_loads(s) ==
    IF s # None /\ s[1].kind = "json"
    THEN [raised |-> "none", value |-> s[1].items]
    ELSE [raised |-> "TypeError", value |-> <<>>]

\* d.update(other)
RECURSIVE update(_, _)
update(d, other) ==
    IF other = <<>> THEN d
    ELSE update(setitem(d, other[1][1], other[1][2]), Tail(other))

X_COINSTORE_APIKEY == "X-COINSTORE-APIKEY"

header_for_authentication(auth) == << <<X_COINSTORE_APIKEY, api_key[auth]>> >>

RESTRequest(method, params, data, headers) ==
    [method |-> method, params |-> params, data |-> data, headers |-> headers]

\* rest_authenticate(request) at provider time now: the exception raised
\* ("none" when it returns), the request returned, and the parameters given
\* to add_auth_to_params
rest_authenticate(auth, request, now) ==
    IF request.method = "POST" /\ json_loads(request.data).raised # "none"
    THEN [raised |-> json_loads(request.data).raised, returned |-> None, params |-> None]
    ELSE LET params == IF request.method = "POST"
                       THEN json_loads(request.data).value
                       ELSE or_empty(request.params)
             request_params == add_auth_to_params(auth, params, now).request_params
             headers0 == <<>>
             headers1 == IF request.headers # None
                         THEN update(headers0, request.headers[1])
                         ELSE headers0
             headers2 == update(headers1, header_for_authentication(auth))
         IN  [raised |-> "none",
              returned |-> Some(
                  IF request.method = "POST"
                  THEN RESTRequest(request.method, request.params,
                                   Some(mapping(request_params)), Some(headers2))
                  ELSE RESTRequest(request.method, Some(request_params),
                                   request.data, Some(headers2))),
              params |-> Some(params)]

\* the requests of the callers in this model
OrderParams == << <<"symbol", text>>, <<"limit", int(5)>> >>
Requests ==
    { RESTRequest("GET", Some(OrderParams), None, None),
      RESTRequest("GET", None, None, Some(<< <<"Content-Type", "application/json">> >>)),
      RESTRequest("GET", Some(OrderParams), Some(json_dumps(<< <<"orderId", int(9)>> >>)), None),
      RESTRequest("DELETE", Some(OrderParams), None,
                  Some(<< <<X_COINSTORE_APIKEY, "staleKey">>,
                          <<"Content-Type", "application/json">> >>)),
      RESTRequest("POST", None, Some(json_dumps(OrderParams)),
                  Some(<< <<"Content-Type", "application/json">> >>)),
      RESTRequest("POST", Some(OrderParams), Some(json_dumps(<< <<"orderId", int(9)>> >>)), None),
      RESTRequest("POST", Some(OrderParams), None, None) }

RestAuthenticate(auth, request) ==
    /\ auth \in DOMAIN secret_key
    /\ Len(sign_log) < MaxSigns
    /\ Len(request_log) < MaxSigns
    /\ \E now \in Times :
          LET r == rest_authenticate(auth, request, now)
          IN  /\ request_log' = Append(request_log,
                     [auth |-> auth,
                      api_key |-> api_key[auth],
                      request |-> request,
                      raised |-> r.raised,
                      returned |-> r.returned])
              /\ IF r.params = None
                 THEN UNCHANGED <<sign_log, clock>>
                 ELSE /\ clock' = now
                      /\ sign_log' = Append(sign_log,
                             [auth |-> auth,
                              secret |-> secret_key[auth],
                              params |-> r.params[1],
                              params_after |-> add_auth_to_params(auth, r.params[1], now).params,
                              same_mapping |->
                                  add_auth_to_params(auth, r.params[1], now).same_mapping,
                              now |-> now,
                              timestamp |-> add_auth_to_params(auth, r.params[1], now).timestamp,
                              signed |-> add_auth_to_params(auth, r.params[1], now).signed,
                              signature |-> add_auth_to_params(auth, r.params[1], now).signature,
                              request_params |->
                                  add_auth_to_params(auth, r.params[1], now).request_params])
    /\ UNCHANGED <<_trading_pairs, secret_key, api_key, snapshots, registry, connection,
                   ws_sent, pipeline>>

----------------------------------------------------------------------------
(* Specification *)

TradingPairLists == { <<BTC_USDT>>, <<BTC_USDT, ETH_USDT>> }

\* a data source for instruments of any quote asset
TradingPairListsAnyQuote == { <<BTC_USDT>>, <<ETH_USDC>>, <<BTC_USDT, ETH_USDC>> }

\* the state after construction, but for the instruments
Constructed ==
    /\ _trading_pair_symbol_map = EmptyMap
    /\ _symbol_to_id_map = EmptyMap
    /\ pc = "connect"
    /\ ws = 0
    /\ ws_sent = <<>>
    /\ sub_log = <<>>
    /\ wire = <<>>
    /\ _message_queue = [k \in _get_messages_queue_keys |-> <<>>]
    /\ trade_output = <<>>
    /\ diff_output = <<>>
    /\ handled = {}
    /\ dropped = {}
    /\ clock = 1
    /\ rest_requests = <<>>
    /\ snapshot_log = <<>>
    /\ secret_key = EmptyMap
    /\ sign_log = <<>>
    /\ api_key = EmptyMap
    /\ request_log = <<>>
    /\ loading = <<>>
    /\ load_log = <<>>

Init ==
    /\ _trading_pairs \in TradingPairLists
    /\ Constructed

InitAnyQuote ==
    /\ _trading_pairs \in TradingPairListsAnyQuote
    /\ Constructed

\* the metadata load of the startup, before the stream is read
LoadAtStartup(exchange_info) ==
    /\ pc # "read"
    /\ _initialize_trading_pair_symbols_from_exchange_info(exchange_info)

Next ==
    \/ \E exchange_info \in ExchangeInfos : LoadAtStartup(exchange_info)
    \/ _connected_websocket_assistant
    \/ Subscribe
    \/ \E event_message \in Frames : Receive(event_message)
    \/ ListenForTrades
    \/ ListenForOrderBookDiffs

\* The metadata is loaded before the stream is read, and a connection stays
\* open once it is subscribed
Spec == Init /\ [][Next]_vars

\* The metadata may be loaded again at any time; the connection may end at
\* any time, and the loop connects again.  The venue sends keepalive frames.
NextReconnect ==
    \/ \E exchange_info \in ExchangeInfos :
           _initialize_trading_pair_symbols_from_exchange_info(exchange_info)
    \/ _connected_websocket_assistant
    \/ Subscribe
    \/ ConnectionClosed
    \/ \E event_message \in OtherFrames : Receive(event_message)

SpecReconnect == Init /\ [][NextReconnect]_vars

\* The venue sends frames of any JSON shape; a frame that the Router fails on
\* ends the connection, and the loop connects again.
NextShapes ==
    \/ \E exchange_info \in ExchangeInfos : LoadAtStartup(exchange_info)
    \/ _connected_websocket_assistant
    \/ Subscribe
    \/ \E event_message \in OtherFrames \cup NonObjectFrames : Receive(event_message)

SpecShapes == Init /\ [][NextShapes]_vars

\* The tracker asks for snapshots of its instruments while the metadata may
\* be loaded again.
NextSnapshot ==
    \/ \E exchange_info \in ExchangeInfos :
           _initialize_trading_pair_symbols_from_exchange_info(exchange_info)
    \/ \E trading_pair \in Instruments : FetchSnapshot(trading_pair)

SpecSnapshot == Init /\ [][NextSnapshot]_vars

\* The metadata is loaded at any time, in any spelling of the symbols, while
\* the loop connects and subscribes.
NextRegistry ==
    \/ \E exchange_info \in ExchangeInfosAnyCase :
           _initialize_trading_pair_symbols_from_exchange_info(exchange_info)
    \/ _connected_websocket_assistant
    \/ Subscribe
    \/ ConnectionClosed

SpecRegistry == Init /\ [][NextRegistry]_vars

\* The loop connects and subscribes while the task may be cancelled and the
\* send may fail.
NextFaults ==
    \/ \E exchange_info \in ExchangeInfos :
           _initialize_trading_pair_symbols_from_exchange_info(exchange_info)
    \/ _connected_websocket_assistant
    \/ \E fault \in Faults : SubscribeUnder(fault)
    \/ ConnectionClosed

SpecFaults == Init /\ [][NextFaults]_vars

\* The metadata is loaded statement by statement, at any time, while the
\* loop connects and subscribes.
NextPopulation ==
    \/ \E exchange_info \in ExchangeInfosAnyCase : LoadBegin(exchange_info)
    \/ LoadSymbol
    \/ _set_trading_pair_symbol_map
    \/ _connected_websocket_assistant
    \/ Subscribe
    \/ ConnectionClosed

SpecPopulation == Init /\ [][NextPopulation]_vars

\* The metadata is loaded at any time, with markets of any quote asset, while
\* the loop connects and subscribes.
NextLoads ==
    \/ \E exchange_info \in ExchangeInfosAnyQuote : LoadLogged(exchange_info)
    \/ _connected_websocket_assistant
    \/ Subscribe
    \/ ConnectionClosed

SpecLoads == InitAnyQuote /\ [][NextLoads]_vars

\* The tracker asks for snapshots of its instruments while depth frames are
\* read and normalized.
NextInterleaving ==
    \/ \E exchange_info \in ExchangeInfos : LoadAtStartup(exchange_info)
    \/ _connected_websocket_assistant
    \/ Subscribe
    \/ \E event_message \in DiffFrames : Receive(event_message)
    \/ ListenForOrderBookDiffs
    \/ \E trading_pair \in Instruments : FetchSnapshot(trading_pair)

SpecInterleaving == Init /\ [][NextInterleaving]_vars

\* Signers are built and sign the parameters of their callers.
NextSigner ==
    \/ \E auth \in Signers, key \in ApiKeys, secret \in Secrets :
           CoinstoreAuth(auth, key, secret)
    \/ \E auth \in Signers, params \in ParamMappings : AddAuthToParams(auth, params)

SpecSigner == Init /\ [][NextSigner]_vars

\* Signers are built and authenticate the REST requests of their callers.
NextRequests ==
    \/ \E auth \in Signers, key \in ApiKeys, secret \in Secrets :
           CoinstoreAuth(auth, key, secret)
    \/ \E auth \in Signers, request \in Requests : RestAuthenticate(auth, request)

SpecRequests == Init /\ [][NextRequests]_vars

----------------------------------------------------------------------------
(* Vocabulary of the claims *)

CarriesTradeTag(m) == has(m, "T") /\ m["T"] = "trade"
CarriesDiffTag(m) == has(m, "T") /\ m["T"] = "depth"
CarriesTradeId(m) == has(m, "tradeId") /\ m["tradeId"] # null
MatchesNeither(m) == ~CarriesTradeTag(m) /\ ~CarriesTradeId(m) /\ ~CarriesDiffTag(m)

Received == 1..Len(wire)
QueuedOn(key) == { _message_queue[key][i] : i \in 1..Len(_message_queue[key]) }
RecordsOf(queue, n) == SelectSeq(queue, LAMBDA r : r.frame = n)

----------------------------------------------------------------------------
(* C1: the Router classifies every frame in the stated priority order: a   *)
(* frame with the trade tag or a non-null tradeId is Trade, also when it   *)
(* carries the diff tag; a frame is Diff only when it carries the diff tag *)
(* and neither the trade tag nor a tradeId.                                *)
C1_RouterPriority ==
    \A n \in Received :
        LET m == wire[n].data
        IN  /\ (CarriesTradeTag(m) \/ CarriesTradeId(m)) => wire[n].channel = "trade"
            /\ wire[n].channel = "depth" =>
                   (CarriesDiffTag(m) /\ ~CarriesTradeTag(m) /\ ~CarriesTradeId(m))

(* C2: every frame with a top-level tradeId is classified as Trade and is  *)
(* never routed to the keepalive path.                                     *)
C2_TradeIdIsTrade ==
    \A n \in Received :
        CarriesTradeId(wire[n].data) =>
            /\ wire[n].channel = "trade"
            /\ wire[n].channel \in _get_messages_queue_keys

(* C3: every frame that matches neither the trade nor the diff             *)
(* classification is answered by exactly one pong on the stream it came    *)
(* from, carrying the local time in milliseconds, and nothing of it is     *)
(* ever on the trade or diff queue.                                        *)
C3_NothingEnqueued ==
    /\ \A n \in Received :
           MatchesNeither(wire[n].data) =>
               /\ \A key \in DOMAIN _message_queue : n \notin QueuedOn(key)
               /\ RecordsOf(trade_output, n) = <<>>
               /\ RecordsOf(diff_output, n) = <<>>
    /\ Len(SelectSeq(ws_sent, IsPong))
           = Cardinality({n \in Received : MatchesNeither(wire[n].data)})

C3_OnePong ==
    (Len(wire') = Len(wire) + 1 /\ MatchesNeither(wire'[Len(wire')].data)) =>
        /\ ws_sent' = Append(ws_sent,
                             [ws |-> wire'[Len(wire')].ws,
                              payload |-> [op |-> "pong", epochMillis |-> clock' * 1000]])
        /\ wire'[Len(wire')].ws = ws
        /\ UNCHANGED <<_message_queue, trade_output, diff_output>>

----------------------------------------------------------------------------
(* Claims on subscribe, read off the log of its calls *)

\* every configured instrument has a VenueSymbol and that symbol a ChannelId
Resolves(call, pair) ==
    \E symbol \in DOMAIN call.symbol_map :
        call.symbol_map[symbol] = pair /\ symbol \in DOMAIN call.ids
AllResolve(call) == \A k \in 1..Len(_trading_pairs) : Resolves(call, _trading_pairs[k])

\* the control frames that went out on the stream of a call
ControlFramesOf(call) == SelectSeq(ws_sent, LAMBDA f : f.ws = call.ws /\ ~IsPong(f))

(* C4: when every instrument resolves, one call of subscribe sends exactly *)
(* one control frame, with op SUB, id 1 and 2 x |instruments| channels.    *)
C4_SubscribeOneFrame ==
    \A i \in 1..Len(sub_log) :
        AllResolve(sub_log[i]) =>
            /\ sub_log[i].raised = "none"
            /\ Len(ControlFramesOf(sub_log[i])) = 1
            /\ ControlFramesOf(sub_log[i])[1].payload.op = "SUB"
            /\ ControlFramesOf(sub_log[i])[1].payload.id = 1
            /\ Len(ControlFramesOf(sub_log[i])[1].payload.channel) = 2 * Len(_trading_pairs)

C4_Witness ==
    \E i \in 1..Len(sub_log) :
        /\ AllResolve(sub_log[i])
        /\ Len(_trading_pairs) = 2
        /\ ControlFramesOf(sub_log[i]) # <<>>

(* C5: when an instrument does not resolve, subscribe raises to its caller *)
(* and sends no control frame, not even one with part of the channels.     *)
C5_SubscribeAborts ==
    \A i \in 1..Len(sub_log) :
        ~AllResolve(sub_log[i]) =>
            /\ sub_log[i].raised # "none"
            /\ sub_log[i].sent = <<>>
            /\ ControlFramesOf(sub_log[i]) = <<>>

C5_Witness ==
    \E i \in 1..Len(sub_log) :
        /\ Len(_trading_pairs) = 2
        /\ Resolves(sub_log[i], _trading_pairs[1])
        /\ ~Resolves(sub_log[i], _trading_pairs[2])
        /\ sub_log[i].raised # "none"

(* C6: subscribe is idempotent: two calls under the same Registry send the *)
(* same control frame, whatever was sent before, and a frame that is sent  *)
(* holds the channels of all instruments.                                  *)
C6_SubscribeIdempotent ==
    /\ \A i, j \in 1..Len(sub_log) :
           (sub_log[i].symbol_map = sub_log[j].symbol_map /\ sub_log[i].ids = sub_log[j].ids) =>
               /\ sub_log[i].raised = sub_log[j].raised
               /\ [k \in 1..Len(ControlFramesOf(sub_log[i])) |-> ControlFramesOf(sub_log[i])[k].payload]
                    = [k \in 1..Len(ControlFramesOf(sub_log[j])) |-> ControlFramesOf(sub_log[j])[k].payload]
    /\ \A i \in 1..Len(sub_log) :
           \A k \in 1..Len(ControlFramesOf(sub_log[i])) :
               Len(ControlFramesOf(sub_log[i])[k].payload.channel) = 2 * Len(_trading_pairs)

C6_Witness ==
    \E i, j \in 1..Len(sub_log) :
        /\ i < j
        /\ sub_log[i].ws # sub_log[j].ws
        /\ sub_log[i].symbol_map = sub_log[j].symbol_map /\ sub_log[i].ids = sub_log[j].ids
        /\ ControlFramesOf(sub_log[i]) # <<>>
        /\ ControlFramesOf(sub_log[j]) # <<>>

----------------------------------------------------------------------------
(* Claims on the normalizers, read off the step of a listener *)

\* the frame a listener takes in this step, if it takes one
TakenFrom(key) ==
    IF _message_queue[key] # <<>> /\ _message_queue'[key] = Tail(_message_queue[key])
    THEN {Head(_message_queue[key])}
    ELSE {}

Resolvable(symbol) == symbol \in DOMAIN _trading_pair_symbol_map
Numeric(x) == x.t \in {"int", "float", "str"}

C7_DiffStep ==
    \A n \in TakenFrom("depth") :
        LET m == wire[n].data
        IN  (has(m, "symbol") /\ has(m, "b") /\ has(m, "a")) =>
                IF Resolvable(m["symbol"])
                THEN /\ Len(diff_output') = Len(diff_output) + 1
                     /\ SubSeq(diff_output', 1, Len(diff_output)) = diff_output
                     /\ diff_output'[Len(diff_output')].frame = n
                     /\ diff_output'[Len(diff_output')].msg.type = "DIFF"
                     /\ diff_output'[Len(diff_output')].msg.content.trading_pair
                            = _trading_pair_symbol_map[m["symbol"]]
                     /\ diff_output'[Len(diff_output')].msg.content.bids = m["b"]
                     /\ diff_output'[Len(diff_output')].msg.content.asks = m["a"]
                     /\ n \notin dropped'
                     /\ UNCHANGED trade_output
                ELSE /\ n \in dropped'
                     /\ UNCHANGED <<diff_output, trade_output>>

(* C7: the diff normalizer, given a frame with symbol X and arrays b and a,*)
(* puts exactly one Diff record of the resolution of X with the frame's b  *)
(* and a on the diff queue when X resolves, and drops the frame without a  *)
(* record when X does not resolve.                                         *)
C7_DiffNormalizer == [][C7_DiffStep]_vars

C7_Witness ==
    /\ \E n \in handled \ dropped :
           /\ wire[n].channel = "depth"
           /\ Len(RecordsOf(diff_output, n)) = 1
    /\ \E n \in handled \cap dropped :
           /\ wire[n].channel = "depth"
           /\ has(wire[n].data, "symbol") /\ has(wire[n].data, "b") /\ has(wire[n].data, "a")
           /\ ~Resolvable(wire[n].data["symbol"])

\* a payload that holds every field of a trade, of a known symbol
WellFormed(payload) ==
    /\ \A key \in {"tradeId", "symbol", "takerSide", "volume", "price", "time"} :
           has(payload, key)
    /\ Resolvable(payload["symbol"])
    /\ Numeric(payload["volume"]) /\ Numeric(payload["price"])
    /\ payload["time"].t \in {"int", "float"}

IsBatch(m) ==
    /\ has(m, "data")
    /\ ~CarriesTradeId(m)
    /\ \A k \in 1..Len(m["data"]) : WellFormed(m["data"][k])

C8_TradeStep ==
    \A n \in TakenFrom("trade") :
        LET m == wire[n].data
        IN  IsBatch(m) =>
                /\ Len(trade_output') = Len(trade_output) + Len(m["data"])
                /\ SubSeq(trade_output', 1, Len(trade_output)) = trade_output
                /\ \A k \in 1..Len(m["data"]) :
                       LET r == trade_output'[Len(trade_output) + k]
                       IN  /\ r.frame = n
                           /\ r.msg.type = "TRADE"
                           /\ r.msg.content.trade_id = m["data"][k]["tradeId"]
                           /\ r.msg.content.trading_pair
                                  = _trading_pair_symbol_map[m["data"][k]["symbol"]]
                /\ UNCHANGED diff_output

(* C8: a batch trade frame whose data array holds n well-formed entries    *)
(* and no top-level tradeId produces exactly n Trade records on the trade  *)
(* OutputQueue, in the order of the entries in the array.                  *)
C8_BatchInOrder == [][C8_TradeStep]_vars

C8_Witness ==
    \E n \in handled :
        /\ wire[n].channel = "trade"
        /\ IsBatch(wire[n].data)
        /\ Len(wire[n].data["data"]) = 2
        /\ Len(RecordsOf(trade_output, n)) = 2

(* C9: a frame whose normalization fails at any point leaves no record on  *)
(* any OutputQueue, also when earlier entries of its batch were            *)
(* well-formed.                                                            *)
C9_FullyParsedOrDropped ==
    \A n \in dropped :
        /\ RecordsOf(trade_output, n) = <<>>
        /\ RecordsOf(diff_output, n) = <<>>

\* the payload of the wire a record was made from
PayloadOf(r) ==
    LET m == wire[r.frame].data
    IN  IF has(m, "data") /\ r.entry <= Len(m["data"]) THEN m["data"][r.entry] ELSE m

\* record r came on the wire before record q
ArrivedBefore(r, q) ==
    \/ r.frame < q.frame
    \/ r.frame = q.frame /\ r.entry < q.entry

InArrivalOrder(queue) ==
    \A i, j \in 1..Len(queue) :
        (i < j /\ queue[i].msg.content.trading_pair = queue[j].msg.content.trading_pair) =>
            ArrivedBefore(queue[i], queue[j])

(* C10: in the trade queue and in the diff queue, the records of one       *)
(* instrument stand in the order in which their frames, and the entries    *)
(* inside a frame, arrived on the wire.                                    *)
C10_ArrivalOrder ==
    /\ InArrivalOrder(trade_output)
    /\ InArrivalOrder(diff_output)
    /\ \A i \in 1..Len(trade_output) :
           /\ trade_output[i].frame \in Received
           /\ trade_output[i].msg.content.trade_id = PayloadOf(trade_output[i])["tradeId"]
    /\ \A i \in 1..Len(diff_output) :
           /\ diff_output[i].frame \in Received
           /\ diff_output[i].msg.content.bids = PayloadOf(diff_output[i])["b"]

C10_Witness ==
    \E i, j, k \in 1..Len(trade_output) :
        /\ i < j /\ j < k
        /\ trade_output[i].frame = trade_output[j].frame
        /\ trade_output[j].frame < trade_output[k].frame
        /\ trade_output[i].msg.content.trading_pair = trade_output[j].msg.content.trading_pair
        /\ trade_output[j].msg.content.trading_pair = trade_output[k].msg.content.trading_pair

----------------------------------------------------------------------------
(* Recovery from a frame that a normalizer rejects *)

\* a frame the trade normalizer accepts: a data array of well-formed
\* payloads and, if the frame carries a tradeId, a well-formed payload of its own
WellFormedTradeFrame(m) ==
    /\ has(m, "data")
    /\ \A k \in 1..Len(m["data"]) : WellFormed(m["data"][k])
    /\ CarriesTradeId(m) => WellFormed(m)

WellFormedDiffFrame(m) ==
    has(m, "symbol") /\ has(m, "b") /\ has(m, "a") /\ Resolvable(m["symbol"])

\* frame n came after a dropped frame of the same connection
AfterADrop(n) == \E k \in dropped : k < n /\ wire[k].ws = wire[n].ws

C11_LaterFramesNormalized ==
    \A n \in handled :
        AfterADrop(n) =>
            /\ (wire[n].channel = "trade" /\ WellFormedTradeFrame(wire[n].data)) =>
                   /\ n \notin dropped
                   /\ Len(RecordsOf(trade_output, n))
                          = Len(wire[n].data["data"])
                              + (IF CarriesTradeId(wire[n].data) THEN 1 ELSE 0)
            /\ (wire[n].channel = "depth" /\ WellFormedDiffFrame(wire[n].data)) =>
                   /\ n \notin dropped
                   /\ Len(RecordsOf(diff_output, n)) = 1

C11_DropStep ==
    dropped' # dropped =>
        /\ pc' = "read" /\ ws' = ws
        /\ \E n \in TakenFrom("trade") \cup TakenFrom("depth") : dropped' = dropped \cup {n}
        /\ \A key \in DOMAIN _message_queue :
               \/ _message_queue'[key] = _message_queue[key]
               \/ /\ _message_queue[key] # <<>>
                  /\ _message_queue'[key] = Tail(_message_queue[key])

----------------------------------------------------------------------------
(* C12: the Router raises on no frame, whatever its shape: every frame     *)
(* received, also one that is no JSON object or whose fields are null, is  *)
(* classified as Trade, Diff or Unknown.                                   *)
C12_RouterNeverRaises ==
    \A n \in Received :
        /\ wire[n].raised = "none"
        /\ wire[n].channel \in {_trade_messages_queue_key, _diff_messages_queue_key, ""}

----------------------------------------------------------------------------
(* Claims on fetchSnapshot, read off the log of its calls *)

\* the instrument of the call had a VenueSymbol when the call was made
HasRegistryEntry(call) ==
    \E symbol \in DOMAIN call.symbol_map : call.symbol_map[symbol] = call.trading_pair
VenueSymbolOf(call) ==
    CHOOSE symbol \in DOMAIN call.symbol_map : call.symbol_map[symbol] = call.trading_pair

\* the venue answers the request of the call with a body
Answered(call) == call.venue.raised = "none"
\* the body holds data.b and data.a
Complete(body) == has(body, "data") /\ has(body["data"], "b") /\ has(body["data"], "a")

(* C13: fetchSnapshot for an instrument with a Registry entry issues       *)
(* exactly one REST request, addressed with the VenueSymbol of the         *)
(* instrument, and hands the response of the venue on unchanged.           *)
C13_OneRequestPerFetch ==
    \A i \in 1..Len(snapshot_log) :
        LET call == snapshot_log[i]
        IN  HasRegistryEntry(call) =>
                /\ Len(call.requests) = 1
                /\ call.requests[1].params = VenueSymbolOf(call)
                /\ call.requests[1].url
                       = <<"https://api.coinstore.com/api", "/v1/market/depth/">>
                             \o VenueSymbolOf(call)
                /\ Answered(call) => call.response = <<call.venue.data>>

(* C14: a response {data: {b: B, a: A}} fetched for instrument I gives a   *)
(* Snapshot record of instrument I with bids B and asks A, in that order,  *)
(* and with an update marker.                                              *)
C14_SnapshotOfResponse ==
    \A i \in 1..Len(snapshot_log) :
        LET call == snapshot_log[i]
        IN  (HasRegistryEntry(call) /\ Answered(call) /\ Complete(call.venue.data)) =>
                /\ call.raised = "none"
                /\ Len(call.result) = 1
                /\ call.result[1].type = "SNAPSHOT"
                /\ call.result[1].content.trading_pair = call.trading_pair
                /\ call.result[1].content.bids = call.venue.data["data"]["b"]
                /\ call.result[1].content.asks = call.venue.data["data"]["a"]
                /\ has(call.result[1].content, "update_id")

(* C15: when the REST request fails with a transport error, fetchSnapshot  *)
(* raises that error to its caller, has issued at most one request and     *)
(* returns no Snapshot record.                                             *)
C15_TransportErrorSurfaced ==
    \A i \in 1..Len(snapshot_log) :
        LET call == snapshot_log[i]
        IN  (HasRegistryEntry(call) /\ ~Answered(call)) =>
                /\ call.raised = call.venue.raised
                /\ call.at = "request"
                /\ Len(call.requests) <= 1
                /\ Len(rest_requests) >= call.sent_before + Len(call.requests)
                /\ call.result = <<>>

----------------------------------------------------------------------------
(* Instrument and update marker of the records *)

Snapshots ==
    { snapshot_log[i].result[1] : i \in { k \in 1..Len(snapshot_log) : snapshot_log[k].result # <<>> } }
Diffs == { diff_output[i].msg : i \in 1..Len(diff_output) }
Trades == { trade_output[i].msg : i \in 1..Len(trade_output) }

CarriesOneInstrument(msg) ==
    has(msg.content, "trading_pair") /\ msg.content.trading_pair \in Instruments
CarriesUpdateMarker(msg) == has(msg.content, "update_id")

----------------------------------------------------------------------------
(* Claims on the Registry *)

\* channelId(symbol): self._connector._symbol_to_id_map[symbol]
ChannelIdOf(symbol) ==
    IF symbol \in DOMAIN _symbol_to_id_map
    THEN [raised |-> "none", value |-> _symbol_to_id_map[symbol]]
    ELSE [raised |-> "KeyError", value |-> 0]

HasEntry(instrument) ==
    \E symbol \in DOMAIN _trading_pair_symbol_map :
        _trading_pair_symbol_map[symbol] = instrument

\* a step that loads metadata changes nothing but the Registry
IsLoadStep == UNCHANGED <<connection, ws_sent, pipeline, snapshots, clock>>

C18_Resolves ==
    \A instrument \in Instruments :
        HasEntry(instrument) =>
            /\ exchange_symbol_associated_to_pair(instrument).raised = "none"
            /\ _trading_pair_symbol_map[exchange_symbol_associated_to_pair(instrument).value]
                   = instrument
            /\ ChannelIdOf(exchange_symbol_associated_to_pair(instrument).value).raised = "none"

C18_StableStep ==
    ~IsLoadStep =>
        \A instrument \in Instruments :
            HasEntry(instrument) =>
                /\ exchange_symbol_associated_to_pair(instrument)'
                       = exchange_symbol_associated_to_pair(instrument)
                /\ ChannelIdOf(exchange_symbol_associated_to_pair(instrument).value)'
                       = ChannelIdOf(exchange_symbol_associated_to_pair(instrument).value)

(* C18: for every instrument with a Registry entry, resolve and channelId  *)
(* of its VenueSymbol succeed, and they give the same VenueSymbol and      *)
(* ChannelId again as long as no metadata is loaded.                       *)
C18_ResolveStable == []C18_Resolves /\ [][C18_StableStep]_vars

C18_Witness ==
    /\ Len(sub_log) >= 2
    /\ sub_log[Len(sub_log)].raised = "none"
    /\ sub_log[Len(sub_log)].symbol_map = _trading_pair_symbol_map
    /\ sub_log[Len(sub_log) - 1].symbol_map = _trading_pair_symbol_map
    /\ \A instrument \in Instruments : HasEntry(instrument)

(* C19: the map between instruments and VenueSymbols is a bijection in     *)
(* every reachable state, whatever metadata is loaded, also metadata whose *)
(* symbols differ only in letter case.                                     *)
C19_RegistryBijection ==
    \A s1, s2 \in DOMAIN _trading_pair_symbol_map :
        _trading_pair_symbol_map[s1] = _trading_pair_symbol_map[s2] => s1 = s2

\* the two spellings of one market were loaded, and the Registry has entries
C19_Witness ==
    /\ btcUSDT \in DOMAIN _symbol_to_id_map
    /\ BTCUSDT \in DOMAIN _trading_pair_symbol_map
    /\ ETHUSDT \in DOMAIN _trading_pair_symbol_map

----------------------------------------------------------------------------
(* Claims on the request signer *)

without(d, key) == SelectSeq(d, LAMBDA item : item[1] # key)

(* C21: for every parameter mapping passed to the signer, also one that    *)
(* holds a timestamp key already, the signed sequence is the caller's      *)
(* parameters in insertion order followed by the timestamp as last entry,  *)
(* the timestamp is the provider time in integer milliseconds, and the     *)
(* signature is computed over exactly that sequence and appended after it. *)
C21_TimestampLast ==
    \A i \in 1..Len(sign_log) :
        LET call == sign_log[i]
            expected == Append(without(call.params, "timestamp"),
                               <<"timestamp", int(call.now * 1000)>>)
        IN  /\ call.signed = expected
            /\ call.signature = hmac_sha256_hexdigest(call.secret, urlencode(expected))
            /\ call.request_params = Append(expected, <<"signature", call.signature>>)

\* the same for the mappings that hold no timestamp key
C21_TimestampLastWhenAbsent ==
    \A i \in 1..Len(sign_log) :
        "timestamp" \notin keys(sign_log[i].params) =>
            LET call == sign_log[i]
                expected == Append(call.params, <<"timestamp", int(call.now * 1000)>>)
            IN  /\ call.signed = expected
                /\ call.signature = hmac_sha256_hexdigest(call.secret, urlencode(expected))
                /\ call.request_params = Append(expected, <<"signature", call.signature>>)

----------------------------------------------------------------------------
(* Claims on the fields of the records *)

\* a value of type decimal.Decimal
ExactDecimal(x) == x.t = "Decimal"

\* the prices and amounts of the levels of a Snapshot or Diff record
LevelValues(msg) ==
    { msg.content.bids[i][k] : i \in 1..Len(msg.content.bids), k \in 1..2 }
        \cup { msg.content.asks[i][k] : i \in 1..Len(msg.content.asks), k \in 1..2 }

(* C22: in every record the price and amount fields are exact decimal      *)
(* values and never binary floating point values: the price and amount of  *)
(* each Trade, and every level of each Snapshot and Diff, whatever JSON    *)
(* number or string the venue frame carried.                               *)
C22_ExactDecimals ==
    /\ \A msg \in Trades :
           ExactDecimal(msg.content.price) /\ ExactDecimal(msg.content.amount)
    /\ \A msg \in Snapshots \cup Diffs :
           \A x \in LevelValues(msg) : ExactDecimal(x) /\ x.t # "float"

\* the part of C22 on Trade records
C22_TradeDecimals ==
    \A msg \in Trades :
        ExactDecimal(msg.content.price) /\ ExactDecimal(msg.content.amount)

----------------------------------------------------------------------------
(* Claims on the keepalive reply under load *)

Unknown(n) == wire[n].channel \notin _get_messages_queue_keys
Pongs(sent) == Len(SelectSeq(sent, IsPong))
Pending == Len(trade_output) + Len(diff_output)

\* the reader takes a frame: the pong of every earlier Unknown frame is out
\* by then, and the pong of this frame, if Unknown, goes out in the same step
C23_ReaderStep ==
    Len(wire') = Len(wire) + 1 =>
        /\ Pongs(ws_sent) = Cardinality({n \in Received : Unknown(n)})
        /\ wire'[Len(wire')].channel \notin _get_messages_queue_keys =>
               /\ Pongs(ws_sent') = Pongs(ws_sent) + 1
               /\ IsPong(ws_sent'[Len(ws_sent')])
        /\ UNCHANGED <<trade_output, diff_output>>

\* a listener puts records on its OutputQueue: the reader is where it was
C23_EnqueueStep ==
    (trade_output' # trade_output \/ diff_output' # diff_output) =>
        /\ UNCHANGED <<pc, ws, wire, ws_sent>>
        /\ Len(trade_output') >= Len(trade_output)
        /\ Len(diff_output') >= Len(diff_output)

\* the reader of an open stream can take the next frame, whatever is pending
C23_ReaderNotBlocked ==
    (pc = "read" /\ Len(wire) < MaxFrames) =>
        ENABLED (\E event_message \in OtherFrames : Receive(event_message))

----------------------------------------------------------------------------
(* Claims on the channel list of the subscribe frame *)

\* the ChannelId of the VenueSymbol an instrument resolved to in a call
ChannelIdIn(call, instrument) ==
    call.ids[CHOOSE symbol \in DOMAIN call.symbol_map : call.symbol_map[symbol] = instrument]

(* C24: the channel list of the subscribe frame is built in instrument     *)
(* order: for the i-th instrument, with ChannelId c of its resolved        *)
(* VenueSymbol, position 2i holds "c@depth@50" and position 2i+1 holds     *)
(* "c@trade" (counted from 0); no channel of another instrument appears.   *)
C24_ChannelOrder ==
    \A n \in 1..Len(sub_log) :
        \A f \in 1..Len(sub_log[n].sent) :
            LET channel == sub_log[n].sent[f].channel
            IN  /\ Len(channel) = 2 * Len(_trading_pairs)
                /\ \A k \in 1..Len(_trading_pairs) :
                       LET c == ToString(ChannelIdIn(sub_log[n], _trading_pairs[k]))
                       IN  /\ channel[2 * k - 1] = c \o "@depth@50"
                           /\ channel[2 * k] = c \o "@trade"

C24_Witness ==
    \E n \in 1..Len(sub_log) :
        /\ Len(sub_log[n].sent) = 1
        /\ Len(_trading_pairs) = 2
        /\ Len(sub_log[n].sent[1].channel) = 4
        /\ ChannelIdIn(sub_log[n], _trading_pairs[1]) # ChannelIdIn(sub_log[n], _trading_pairs[2])

----------------------------------------------------------------------------
(* Claims on the Trade records of a frame *)

\* the frames the trade normalizer has taken
NormalizedAsTrade == { n \in handled : wire[n].channel = _trade_messages_queue_key }

\* a frame with a data array of well-formed entries and a well-formed
\* incremental payload at its top level
IsBatchWithIncremental(m) ==
    /\ has(m, "data")
    /\ \A k \in 1..Len(m["data"]) : WellFormed(m["data"][k])
    /\ CarriesTradeId(m)
    /\ WellFormed(m)

(* C25: a trade frame with a data array of n well-formed entries and also  *)
(* a top-level incremental trade payload yields exactly n + 1 Trade        *)
(* records: the n of the batch in array order, then the record of the      *)
(* incremental payload as the last one.                                    *)
C25_BatchThenIncremental ==
    \A n \in NormalizedAsTrade :
        LET m == wire[n].data
            records == RecordsOf(trade_output, n)
        IN  IsBatchWithIncremental(m) =>
                /\ Len(records) = Len(m["data"]) + 1
                /\ \A k \in 1..Len(m["data"]) :
                       records[k].msg.content.trade_id = m["data"][k]["tradeId"]
                /\ records[Len(records)].msg.content.trade_id = m["tradeId"]
                /\ \A k \in 1..Len(records) : records[k].msg.type = "TRADE"
                /\ n \notin dropped

C25_Witness ==
    \E n \in NormalizedAsTrade :
        /\ IsBatchWithIncremental(wire[n].data)
        /\ Len(wire[n].data["data"]) = 2
        /\ Len(RecordsOf(trade_output, n)) = 3

\* a frame that is one well-formed incremental payload, with no data array
IsIncrementalOnly(m) == ~has(m, "data") /\ CarriesTradeId(m) /\ WellFormed(m)

(* C26: a frame that carries only a single incremental trade payload, with *)
(* no data array and a resolvable symbol, results in exactly one Trade     *)
(* record on the trade OutputQueue; it is not dropped.                     *)
C26_IncrementalOnly ==
    \A n \in NormalizedAsTrade :
        IsIncrementalOnly(wire[n].data) =>
            /\ Len(RecordsOf(trade_output, n)) = 1
            /\ RecordsOf(trade_output, n)[1].msg.content.trade_id = wire[n].data["tradeId"]
            /\ n \notin dropped

(* C27: each Trade record is built from one trade payload only: its trade  *)
(* id, price and amount are that payload's tradeId, price and volume, its  *)
(* instrument is the Registry resolution of that payload's symbol, and its *)
(* event time is that payload's millisecond time over 1000; no field comes *)
(* from another entry of the batch.                                        *)
C27_OnePayloadPerRecord ==
    \A i \in 1..Len(trade_output) :
        LET r == trade_output[i]
            payload == PayloadOf(r)
        IN  /\ r.msg.content.trade_id = payload["tradeId"]
            /\ r.msg.content.price.v = payload["price"].v
            /\ r.msg.content.amount.v = payload["volume"].v
            /\ r.msg.content.trading_pair = _trading_pair_symbol_map[payload["symbol"]]
            /\ r.msg.timestamp.num = payload["time"].v
            /\ r.msg.timestamp.den = 1000

\* two records of one batch whose payloads differ in every field
C27_Witness ==
    \E i, j \in 1..Len(trade_output) :
        /\ trade_output[i].frame = trade_output[j].frame
        /\ trade_output[i].entry < trade_output[j].entry
        /\ \A key \in {"tradeId", "symbol", "price", "volume", "time"} :
               PayloadOf(trade_output[i])[key] # PayloadOf(trade_output[j])[key]

\* the side of a Trade record
Side(r) == r.msg.content.trade_type

(* C28: the side of a Trade record is BUY exactly when the payload's       *)
(* takerSide is "BUY" and SELL exactly when it is "SELL"; a payload with   *)
(* any other takerSide is dropped and no record with a guessed side is     *)
(* put.                                                                    *)
C28_SideOrDropped ==
    \A i \in 1..Len(trade_output) :
        LET r == trade_output[i]
            takerSide == PayloadOf(r)["takerSide"]
        IN  /\ takerSide \in {"BUY", "SELL"}
            /\ Side(r) = float(TradeType.BUY) <=> takerSide = "BUY"
            /\ Side(r) = float(TradeType.SELL) <=> takerSide = "SELL"

\* the part of C28 on the two sides the venue defines
C28_SideOfBuyAndSell ==
    \A i \in 1..Len(trade_output) :
        LET r == trade_output[i]
            takerSide == PayloadOf(r)["takerSide"]
        IN  /\ takerSide = "BUY" => Side(r) = float(TradeType.BUY)
            /\ takerSide = "SELL" => Side(r) = float(TradeType.SELL)

----------------------------------------------------------------------------
(* Claims on the update marker *)

MarkerOf(msg) == msg.content.update_id

\* the marker of every Snapshot and Diff is the receipt timestamp of the
\* record, a local time that was read
C29_MarkerIsTimestamp ==
    \A msg \in Snapshots \cup Diffs :
        /\ MarkerOf(msg) = msg.timestamp
        /\ MarkerOf(msg) \in 1..clock

\* a Diff is put: its marker is the local time read in that step.  A fetch
\* gives a Snapshot: its marker is the local time read after the response.
C29_MarkerStep ==
    /\ Len(diff_output') > Len(diff_output) =>
           MarkerOf(diff_output'[Len(diff_output')].msg) = clock'
    /\ (Len(snapshot_log') > Len(snapshot_log)
            /\ snapshot_log'[Len(snapshot_log')].result # <<>>) =>
           /\ snapshot_log'[Len(snapshot_log')].response # <<>>
           /\ MarkerOf(snapshot_log'[Len(snapshot_log')].result[1]) = clock'

----------------------------------------------------------------------------
(* Claims on the authentication of a REST request *)

\* the items of the headers, of the query parameters and of the body
HeadersOf(request) == { or_empty(request.headers)[i] : i \in 1..Len(or_empty(request.headers)) }
ParamKeys(request) == keys(or_empty(request.params))
DataKeys(request) == IF request.data = None THEN {} ELSE keys(request.data[1].items)
AuthKeys == {"timestamp", "signature"}

\* the API-key header is there, and every other header is as it was
AugmentedHeaders(call) ==
    /\ <<X_COINSTORE_APIKEY, call.api_key>> \in HeadersOf(call.returned[1])
    /\ \A header \in HeadersOf(call.request) :
           header[1] # X_COINSTORE_APIKEY => header \in HeadersOf(call.returned[1])
    /\ { header[1] : header \in HeadersOf(call.returned[1]) }
           = { header[1] : header \in HeadersOf(call.request) } \cup {X_COINSTORE_APIKEY}

\* timestamp and signature are in the body of a POST and in the query
\* parameters of any other request, and the other of the two is as it was
SignedInOnePlace(call) ==
    IF call.request.method = "POST"
    THEN /\ AuthKeys \subseteq DataKeys(call.returned[1])
         /\ call.returned[1].params = call.request.params
    ELSE /\ AuthKeys \subseteq ParamKeys(call.returned[1])
         /\ call.returned[1].data = call.request.data

(* C30: the request signer returns the request augmented with the API-key  *)
(* header while every header already on the request is preserved; the      *)
(* timestamp and signature are written to the body data when the method is *)
(* POST and to the query parameters for every other method, never to both. *)
C30_RequestAugmented ==
    \A i \in 1..Len(request_log) :
        /\ request_log[i].raised = "none"
        /\ request_log[i].returned # None
        /\ AugmentedHeaders(request_log[i])
        /\ SignedInOnePlace(request_log[i])

\* the same for the requests that are no POST without a body
C30_AugmentedWhenBodyPresent ==
    \A i \in 1..Len(request_log) :
        (request_log[i].request.method = "POST" => request_log[i].request.data # None) =>
            /\ request_log[i].raised = "none"
            /\ request_log[i].returned # None
            /\ AugmentedHeaders(request_log[i])
            /\ SignedInOnePlace(request_log[i])

----------------------------------------------------------------------------
(* Claims on the Registry while it is populated *)

\* a load has filed channel ids and has not yet set the symbol map
MidLoad(symbol_map, ids) == \E symbol \in DOMAIN ids : symbol \notin DOMAIN symbol_map

\* every VenueSymbol an instrument resolves to has its ChannelId
CompleteEntries(symbol_map, ids) == DOMAIN symbol_map \subseteq DOMAIN ids

(* C31: Registry lookups are safe against a concurrent metadata load: in   *)
(* every interleaving of a subscribe call with the population of the       *)
(* Registry, a lookup never sees an instrument that resolves to a          *)
(* VenueSymbol whose ChannelId is not yet there; it sees no entry or the   *)
(* complete entry.                                                         *)
C31_CompleteOrAbsent ==
    /\ CompleteEntries(_trading_pair_symbol_map, _symbol_to_id_map)
    /\ \A instrument \in Instruments :
           exchange_symbol_associated_to_pair(instrument).raised = "none" =>
               ChannelIdOf(exchange_symbol_associated_to_pair(instrument).value).raised = "none"
    /\ \A n \in 1..Len(sub_log) :
           /\ CompleteEntries(sub_log[n].symbol_map, sub_log[n].ids)
           /\ sub_log[n].raised # "none" => ~AllResolve(sub_log[n])

\* a subscribe call ran while a load had filed a channel id and not yet set
\* the symbol map, and another found the complete entries
C31_Witness ==
    /\ \E n \in 1..Len(sub_log) :
           /\ MidLoad(sub_log[n].symbol_map, sub_log[n].ids)
           /\ sub_log[n].raised # "none"
    /\ \E n \in 1..Len(sub_log) :
           /\ sub_log[n].symbol_map # EmptyMap
           /\ sub_log[n].raised = "none"

----------------------------------------------------------------------------
(* Claims on who writes the Registry *)

\* a step of subscribe, of fetchSnapshot, of the Router or the keepalive
\* responder, or of a normalizer
IsCoreStep ==
    \/ sub_log' # sub_log
    \/ snapshot_log' # snapshot_log
    \/ rest_requests' # rest_requests
    \/ wire' # wire
    \/ ws_sent' # ws_sent
    \/ _message_queue' # _message_queue
    \/ handled' # handled
    \/ dropped' # dropped
    \/ trade_output' # trade_output
    \/ diff_output' # diff_output

C32_CoreStep ==
    IsCoreStep => UNCHANGED <<_trading_pair_symbol_map, _symbol_to_id_map>>

----------------------------------------------------------------------------
(* Claims on the failures of subscribe *)

IsCancelled(call) == call.fault \in {"cancel_resolving", "cancel_sending"}

C33_FailuresRaised ==
    \A n \in 1..Len(sub_log) :
        LET call == sub_log[n]
        IN  /\ call.fault = "cancel_resolving" =>
                   call.raised = "CancelledError" /\ ~call.logged
            /\ (call.fault = "cancel_sending" /\ AllResolve(call)) =>
                   call.raised = "CancelledError" /\ ~call.logged
            /\ (call.fault = "send_error" /\ AllResolve(call)) =>
                   call.raised = "ConnectionError" /\ call.logged
            /\ (call.fault # "cancel_resolving" /\ ~AllResolve(call)) =>
                   call.raised = "KeyError" /\ call.logged
            /\ call.raised = "none" =>
                   /\ Len(ControlFramesOf(call)) = 1
                   /\ IsSub(ControlFramesOf(call)[1])
            /\ call.raised # "none" => ControlFramesOf(call) = <<>>

\* a call of subscribe writes no field of the data source: the stream it was
\* given is held nowhere once the call is over
C33_SubscribeStep ==
    sub_log' # sub_log => UNCHANGED <<_trading_pairs, _message_queue, wire>>

(* C33: subscribe never swallows a failure: a cancellation raised while    *)
(* resolving instruments or sending is re-raised to the caller, every      *)
(* other error is re-raised after logging, and subscribe returns normally  *)
(* only if the control frame was sent; after it returns or raises, the     *)
(* data source holds no reference to the stream it was given.              *)
C33_NeverSwallows == []C33_FailuresRaised /\ [][C33_SubscribeStep]_vars

\* a call that failed to send, then a call that was cancelled
C33_Witness ==
    \E i, j \in 1..Len(sub_log) :
        /\ i < j
        /\ sub_log[i].fault = "send_error"
        /\ sub_log[i].raised = "ConnectionError"
        /\ sub_log[j].fault = "cancel_sending"
        /\ sub_log[j].raised = "CancelledError"
        /\ AllResolve(sub_log[j])
        /\ pc = "cancelled"

----------------------------------------------------------------------------
(* Claims on the dispatch of a frame *)

\* frame n went the way of one queue: it waits there or was taken from it,
\* and it is on no other queue
OnQueuePath(n, key) ==
    /\ wire[n].channel = key
    /\ n \in QueuedOn(key) \/ n \in handled
    /\ \A other \in DOMAIN _message_queue \ {key} : n \notin QueuedOn(other)

\* frame n went to the keepalive responder
OnKeepalivePath(n) ==
    /\ wire[n].raised = "none"
    /\ wire[n].channel \notin _get_messages_queue_keys
    /\ \A key \in DOMAIN _message_queue : n \notin QueuedOn(key)

PathsOf(n) ==
    { key \in {_trade_messages_queue_key, _diff_messages_queue_key} : OnQueuePath(n, key) }
        \cup (IF OnKeepalivePath(n) THEN {"keepalive"} ELSE {})

(* C34: dispatch is exclusive and total: every inbound frame is handled by *)
(* exactly one of the trade queue path, the diff queue path and the        *)
(* keepalive responder; a frame classified as Trade or Diff triggers no    *)
(* pong, and no stream frame is classified as Snapshot.                    *)
C34_ExclusiveTotal ==
    /\ \A n \in Received :
           /\ Cardinality(PathsOf(n)) = 1
           /\ wire[n].channel # SNAPSHOT_QUEUE_KEY
    /\ Pongs(ws_sent) = Cardinality({n \in Received : OnKeepalivePath(n)})
    /\ _message_queue[SNAPSHOT_QUEUE_KEY] = <<>>

----------------------------------------------------------------------------
(* Claims on the metadata load *)

\* the VenueSymbols that have a ChannelId, and those of the symbol map
WithChannelId == DOMAIN _symbol_to_id_map
InSymbolMap == DOMAIN _trading_pair_symbol_map

(* C35: after any sequence of metadata loads (successful, failed or        *)
(* repeated with other symbols) the VenueSymbols that have a ChannelId are *)
(* the VenueSymbols of the symbol map: no ChannelId is left for a symbol   *)
(* the current map does not hold, also not by a load that failed part-way. *)
C35_SameSymbols == WithChannelId = InSymbolMap

\* the newest entry of the load log after a step that wrote one
Loaded == load_log'[Len(load_log')]
IsLoggedLoad == Len(load_log') = Len(load_log) + 1

C36_ErrorStep ==
    (IsLoggedLoad /\ Loaded.exchange_info["code"] # 0) =>
        /\ Loaded.logged
        /\ Loaded.raised = "none"
        /\ _trading_pair_symbol_map' = _trading_pair_symbol_map
        /\ _symbol_to_id_map' = _symbol_to_id_map
        /\ \A instrument \in Instruments \cup {ETH_USDC} :
               ~HasEntry(instrument) => ~HasEntry(instrument)'

(* C36: a metadata response whose code field is not 0 leaves the Registry  *)
(* unchanged: the load returns after logging, neither the VenueSymbol map  *)
(* nor the ChannelId map gains, loses or changes an entry, and instruments *)
(* that were unresolvable stay unresolvable.                               *)
C36_ErrorLeavesRegistry == [][C36_ErrorStep]_vars

\* a response with an error code came after a load that filled the Registry
\* with one market and left another instrument unresolvable
C36_Witness ==
    /\ Len(load_log) = 2
    /\ load_log[1].exchange_info["code"] = 0
    /\ load_log[2].exchange_info["code"] # 0
    /\ HasEntry(BTC_USDT)
    /\ ~HasEntry(ETH_USDT)
    /\ BTCUSDT \in WithChannelId

EndsWithUSDT(s) == s # <<>> /\ s[Len(s)] = "USDT"

\* the symbols of the model that end with "USDT" and hold it once, with the
\* instrument BASE-USDT of each
InstrumentOfSymbol == BTCUSDT :> BTC_USDT @@ btcUSDT :> BTC_USDT @@ ETHUSDT :> ETH_USDT

SymbolsListed(exchange_info) ==
    { exchange_info["data"][i] : i \in 1..Len(exchange_info["data"]) }

C37_SuccessStep ==
    (IsLoggedLoad /\ Loaded.exchange_info["code"] = 0 /\ Loaded.raised = "none") =>
        LET listed == SymbolsListed(Loaded.exchange_info)
        IN  /\ DOMAIN _trading_pair_symbol_map'
                   = { d["symbol"] : d \in { x \in listed : EndsWithUSDT(x["symbol"]) } }
            /\ \A d \in listed :
                   IF EndsWithUSDT(d["symbol"])
                   THEN /\ _trading_pair_symbol_map'[d["symbol"]]
                               = InstrumentOfSymbol[d["symbol"]]
                        /\ d["symbol"] \in DOMAIN _symbol_to_id_map'
                        /\ _symbol_to_id_map'[d["symbol"]] = d["id"]
                   ELSE /\ d["symbol"] \notin DOMAIN _trading_pair_symbol_map'
                        /\ d["symbol"] \notin DOMAIN _symbol_to_id_map'

\* a subscribe for an instrument that is not quoted in USDT fails
C37_NoSubscribe ==
    \A i \in 1..Len(sub_log) :
        (\E k \in 1..Len(_trading_pairs) : ~EndsWithUSDT(_trading_pairs[k])) =>
            /\ sub_log[i].raised = "KeyError"
            /\ sub_log[i].sent = <<>>

(* C37: a successful metadata load registers exactly the symbols that end  *)
(* with "USDT": each such symbol S with id d gets the instrument BASE-USDT *)
(* (BASE = S without the suffix, upper-cased) and ChannelId d, and a       *)
(* symbol that does not end with "USDT" gets no entry in either map, so a  *)
(* subscribe for such an instrument fails.                                 *)
C37_RegistersUSDT == []C37_NoSubscribe /\ [][C37_SuccessStep]_vars

\* the load of btcUSDT and ETHUSDC succeeded: BTC-USDT resolves, and the
\* subscribe for BTC-USDT and ETH-USDC failed on the Registry it left
C37_Witness ==
    /\ _trading_pairs = <<BTC_USDT, ETH_USDC>>
    /\ \E i \in 1..Len(load_log) :
           /\ load_log[i].raised = "none"
           /\ \E d \in SymbolsListed(load_log[i].exchange_info) : d["symbol"] = ETHUSDC
    /\ _trading_pair_symbol_map = btcUSDT :> BTC_USDT
    /\ _symbol_to_id_map[btcUSDT] = 5
    /\ sub_log # <<>>
    /\ sub_log[Len(sub_log)].symbol_map = _trading_pair_symbol_map
    /\ sub_log[Len(sub_log)].raised = "KeyError"

----------------------------------------------------------------------------
(* Claims on the order of the update markers *)

OfInstrument(msg, trading_pair) == msg.content.trading_pair = trading_pair

\* a fetch whose response is received gives a Snapshot, and no Diff of its
\* instrument normalized before has a later marker
C38_FetchStep ==
    (/\ Len(snapshot_log') > Len(snapshot_log)
     /\ HasRegistryEntry(snapshot_log'[Len(snapshot_log')])
     /\ Answered(snapshot_log'[Len(snapshot_log')])
     /\ Complete(snapshot_log'[Len(snapshot_log')].venue.data)) =>
        LET call == snapshot_log'[Len(snapshot_log')]
        IN  /\ Len(call.result) = 1
            /\ \A diff \in Diffs :
                   OfInstrument(diff, call.trading_pair) =>
                       MarkerOf(diff) <= MarkerOf(call.result[1])

\* a Diff normalized after a Snapshot of its instrument was stamped has no
\* earlier marker
C38_DiffStep ==
    Len(diff_output') > Len(diff_output) =>
        LET diff == diff_output'[Len(diff_output')].msg
        IN  \A snapshot \in Snapshots :
                OfInstrument(snapshot, diff.content.trading_pair) =>
                    MarkerOf(diff) >= MarkerOf(snapshot)

----------------------------------------------------------------------------
(* Claims on the mapping of the signer's caller *)

====
